---------------------------- MODULE Spec2Model ----------------------------
(***************************************************************************)
(* Model of the hook-video generator (src/app.py, with the stand-alone     *)
(* compositor of src/image_hook_builder.py).                               *)
(*                                                                         *)
(* A text is a sequence of one-character strings.  A font is a function    *)
(* from characters to advance widths in pixels; the measured width of a    *)
(* line (the bbox[2] - bbox[0] of ImageDraw.textbbox) is the sum of the    *)
(* advances of its characters.  Times are rationals frame_idx / fps and    *)
(* are kept as numerator and denominator.                                  *)
(***************************************************************************)
EXTENDS Integers, Sequences, FiniteSets, TLC

(***************************************************************************)
(* Bounds of the model.                                                    *)
(***************************************************************************)
MaxTextLen == 6
\* longest video, in seconds
MaxDuration == 6
\* largest frame index build_frame is called with on its own
MaxFrameIdx == 3
\* longest response text of the gateway, in characters
MaxContentLen == 5
\* largest number of hooks asked for, besides the default
MaxNumHooks == 2
MaxReplyLen == 60
MaxItems == 5
\* requests handled at the same time
MaxRequests == 2

(***************************************************************************)
(* Program constants.                                                      *)
(***************************************************************************)
VIDEO_WIDTH == 1080
VIDEO_HEIGHT == 1920
\* build_frame: wrap_text(hook_text, font, VIDEO_WIDTH - 100)
WRAP_MARGIN == 100
\* tiktok_ad_builder.create_text_box: wrap_text(text, font, max_width - padding * 2)
TEXT_BOX_MAX_WIDTH == 900
TEXT_BOX_PADDING == 30
\* build_frame
line_height == 54
text_padding == 30
black_duration == 2
fade_duration == 3
\* image_hook_builder.py: its own dimensions and build_frame locals
ihb_VIDEO_WIDTH == 1080
ihb_VIDEO_HEIGHT == 1920
ihb_WRAP_MARGIN == 100
ihb_line_height == 54
ihb_text_padding == 30
ihb_black_duration == 2
ihb_fade_duration == 3
\* create_video(image_path, hook_text, output_path, duration=5, fps=24)
DEFAULT_DURATION == 5
DEFAULT_FPS == 24
\* generate_hooks_with_llm(image_description, num_hooks=5)
DEFAULT_NUM_HOOKS == 5
\* "Return ONLY the hook text (max 50 chars)": asked of the model in the prompt
HOOK_MAX_CHARS == 50
\* fetch_reddit_posts(subreddit_name="adhdmeme", sort="hot", limit=10)
DEFAULT_LIMIT == 10
\* "maxItems": limit * 3
ITEMS_PER_POST == 3
\* if body and 10 < len(body) < 300:
MIN_BODY_LEN == 10
MAX_BODY_LEN == 300
\* post["top_comments"] = sorted_comments[:3]
TOP_COMMENTS == 3
\* limit = min(int(request.args.get('limit', 10)), 25)
MAX_LIMIT == 25

\* Python's None, where the other values are records
None == [none |-> TRUE]

(***************************************************************************)
(* Characters and fonts.                                                   *)
(***************************************************************************)
Whitespace == {" ", "\n"}
Glyphs == {"a", "W"}
TextChars == Glyphs \cup {" "}

\* get_font(44): the TrueType face when one of FONT_PATHS resolves, else
\* ImageFont.load_default().  Each is a table of advance widths.
get_font(name) ==
    IF name = "truetype"
    THEN [c \in TextChars \cup Whitespace |->
            CASE c = "a" -> 300 [] c = "W" -> 500 [] OTHER -> 100]
    ELSE [c \in TextChars \cup Whitespace |->
            CASE c = "a" -> 200 [] c = "W" -> 400 [] OTHER -> 100]

FontNames == {"truetype", "default"}

\* temp_draw.textbbox((0, 0), line, font=font): bbox[2] - bbox[0]
RECURSIVE Measure(_, _)
Measure(line, font) ==
    IF line = <<>> THEN 0
    ELSE font[Head(line)] + Measure(Tail(line), font)

(***************************************************************************)
(* str.split() and ' '.join().                                             *)
(***************************************************************************)
\* text.split(): the maximal runs of non-whitespace characters, in order.
RECURSIVE SplitFrom(_, _, _)
SplitFrom(text, cur, acc) ==
    IF text = <<>>
    THEN IF cur = <<>> THEN acc ELSE Append(acc, cur)
    ELSE IF Head(text) \in Whitespace
         THEN SplitFrom(Tail(text), <<>>,
                        IF cur = <<>> THEN acc ELSE Append(acc, cur))
         ELSE SplitFrom(Tail(text), Append(cur, Head(text)), acc)

Split(text) == SplitFrom(text, <<>>, <<>>)

\* ' '.join(words)
RECURSIVE Join(_)
Join(ws) ==
    IF ws = <<>> THEN <<>>
    ELSE IF Len(ws) = 1 THEN ws[1]
    ELSE ws[1] \o <<" ">> \o Join(Tail(ws))

(***************************************************************************)
(* wrap_text: one iteration of the loop over the words, and the commit of  *)
(* the last partial line.  st = [lines, current_line].                     *)
(***************************************************************************)
WrapStepCommitsTestLine(st, word, font, max_width) ==
    LET test_line == Join(Append(st.current_line, word)) IN
    IF Measure(test_line, font) <= max_width
    THEN [st EXCEPT !.current_line = Append(@, word)]
    ELSE [lines |-> Append(st.lines, test_line), current_line |-> <<>>]

\* a variant that closes the line after every word, whether or not the next
\* word fits
WrapStepOneWordPerLine(st, word, font, max_width) ==
    [lines |-> IF st.current_line # <<>>
               THEN Append(st.lines, Join(st.current_line))
               ELSE st.lines,
     current_line |-> <<word>>]

WrapStep(st, word, font, max_width) ==
    LET test_line == Join(Append(st.current_line, word)) IN
    IF Measure(test_line, font) <= max_width
    THEN [st EXCEPT !.current_line = Append(@, word)]
    ELSE [lines |-> IF st.current_line # <<>>
                    THEN Append(st.lines, Join(st.current_line))
                    ELSE st.lines,
          current_line |-> <<word>>]

\* a variant that returns without the commit of the last partial line
WrapFinishDropsPartialLine(st) == st.lines

WrapFinish(st) ==
    IF st.current_line # <<>>
    THEN Append(st.lines, Join(st.current_line))
    ELSE st.lines

RECURSIVE WrapLoop(_, _, _, _)
WrapLoop(st, ws, font, max_width) ==
    IF ws = <<>> THEN st
    ELSE WrapLoop(WrapStep(st, Head(ws), font, max_width), Tail(ws),
                  font, max_width)

wrap_text(text, font, max_width) ==
    WrapFinish(WrapLoop([lines |-> <<>>, current_line |-> <<>>],
                        Split(text), font, max_width))

(***************************************************************************)
(* Rational arithmetic for the float expressions of build_frame.  All the  *)
(* denominators are positive.                                              *)
(***************************************************************************)
Rat(n, d) == [num |-> n, den |-> d]
RatLE(a, b) == a.num * b.den <= b.num * a.den
RatLT(a, b) == a.num * b.den < b.num * a.den
RatEq(a, b) == a.num * b.den = b.num * a.den
RatSub(a, b) == Rat(a.num * b.den - b.num * a.den, a.den * b.den)
\* a / b for b > 0
RatDiv(a, b) == Rat(a.num * b.den, a.den * b.num)
\* min(a, b): Python returns the first argument unless the second is smaller
RatMin(a, b) == IF RatLT(b, a) THEN b ELSE a
\* int(x) for x >= 0
RatInt(a) == a.num \div a.den

(***************************************************************************)
(* build_frame.  An image is [size, mode, alpha]: alpha stands for the     *)
(* alpha value of its pixels.  A frame is the canvas with the layers       *)
(* pasted onto it, bottom first, with the locals current_time and          *)
(* fade_progress it was computed from (fade_progress is None when the      *)
(* branch that sets it is not taken).                                      *)
(***************************************************************************)
\* top_padding = int(VIDEO_HEIGHT * 0.12)
top_padding == (VIDEO_HEIGHT * 12) \div 100

\* white_box_height = top_padding + len(lines) * line_height + text_padding * 2
WhiteBoxHeightIgnoresLines(lns) ==
    top_padding + line_height + text_padding * 2

WhiteBoxHeight(lns) ==
    top_padding + Len(lns) * line_height + text_padding * 2

\* the white box with its text: each line centred, stacked by line_height
WhiteBox(lns, font) ==
    LET start_y == top_padding + text_padding IN
    [kind |-> "white_box",
     size |-> <<VIDEO_WIDTH, WhiteBoxHeight(lns)>>,
     at   |-> <<0, 0>>,
     text |-> [k \in 1..Len(lns) |->
                 [line |-> lns[k],
                  x |-> (VIDEO_WIDTH - Measure(lns[k], font)) \div 2,
                  y |-> start_y + (k - 1) * line_height]]]

\* scale = VIDEO_WIDTH / img_w; new_w = VIDEO_WIDTH; new_h = int(img_h * scale)
\* (for the image sizes of ImageFiles the float product is the exact quotient)
ScaledSize(size) ==
    <<VIDEO_WIDTH, RatInt(Rat(size[2] * VIDEO_WIDTH, size[1]))>>

\* img_x = 0; img_y = white_box_height + (VIDEO_HEIGHT - white_box_height - new_h) // 2
ImagePosClamped(white_box_height, new_h) ==
    LET y == white_box_height
             + (VIDEO_HEIGHT - white_box_height - new_h) \div 2
    IN <<0, IF y < white_box_height THEN white_box_height ELSE y>>

ImagePos(white_box_height, new_h) ==
    <<0, white_box_height + (VIDEO_HEIGHT - white_box_height - new_h) \div 2>>

\* if current_time >= black_duration:
ImagePhase(current_time) == RatLE(Rat(black_duration, 1), current_time)

\* fade_progress = min(1.0, (current_time - black_duration) / fade_duration)
FadeProgressOverWholeVideo(current_time) ==
    RatMin(Rat(1, 1),
           RatDiv(RatSub(current_time, Rat(black_duration, 1)),
                  Rat(black_duration + fade_duration, 1)))

FadeProgressUnclamped(current_time) ==
    RatDiv(RatSub(current_time, Rat(black_duration, 1)), Rat(fade_duration, 1))

FadeProgress(current_time) ==
    RatMin(Rat(1, 1),
           RatDiv(RatSub(current_time, Rat(black_duration, 1)),
                  Rat(fade_duration, 1)))

\* if current_time >= black_duration: ... if fade_progress > 0: ... frame.paste
PastesImageAlways(current_time) == TRUE

PastesImageFromBlackDuration(current_time) == ImagePhase(current_time)

PastesImage(current_time) ==
    /\ ImagePhase(current_time)
    /\ RatLT(Rat(0, 1), FadeProgress(current_time))

\* a.point(lambda p: int(p * fade_progress))
\* (exact for the alpha values of ImageFiles at the frame rates of FrameRates)
AlphaPoint(p, fade_progress) == RatInt(Rat(p * fade_progress.num, fade_progress.den))

Background ==
    [kind |-> "background", size |-> <<VIDEO_WIDTH, VIDEO_HEIGHT>>, at |-> <<0, 0>>]

build_frame(frame_idx, image, hook_text, fps, font_name) ==
    LET font == get_font(font_name)
        lns == wrap_text(hook_text, font, VIDEO_WIDTH - WRAP_MARGIN)
        white_box == WhiteBox(lns, font)
        white_box_height == white_box.size[2]
        current_time == Rat(frame_idx, fps)
        new_size == ScaledSize(image.size)
        img_pos == ImagePos(white_box_height, new_size[2])
        fade_progress == FadeProgress(current_time)
        img_with_fade == [kind |-> "image",
                          size |-> new_size,
                          at |-> img_pos,
                          fade_progress |-> fade_progress,
                          alpha |-> AlphaPoint(image.alpha, fade_progress)]
    IN [current_time |-> current_time,
        fade_progress |-> IF ImagePhase(current_time) THEN fade_progress ELSE None,
        layers |-> IF PastesImage(current_time)
                   THEN <<Background, white_box, img_with_fade>>
                   ELSE <<Background, white_box>>]

\* The image argument after the call: resize, convert, copy, split and merge
\* each return a new image and leave the one they are called on alone.
build_frame_fades_in_place(frame_idx, image, fps) ==
    IF ImagePhase(Rat(frame_idx, fps))
    THEN [image EXCEPT !.alpha = AlphaPoint(@, FadeProgress(Rat(frame_idx, fps)))]
    ELSE image

build_frame_image(frame_idx, image, fps) == image

(***************************************************************************)
(* image_hook_builder.py: its wrap_text and its build_frame, translated    *)
(* from its own statements.  str.split, ' '.join, textbbox and the float   *)
(* arithmetic are those of app.py; the font is the one both modules are    *)
(* given.                                                                  *)
(***************************************************************************)
ihb_WrapStep(st, word, font, max_width) ==
    LET test_line == Join(st.current_line \o <<word>>)
        width == Measure(test_line, font)
    IN IF width <= max_width
       THEN [lines |-> st.lines, current_line |-> Append(st.current_line, word)]
       ELSE IF st.current_line # <<>>
            THEN [lines |-> Append(st.lines, Join(st.current_line)),
                  current_line |-> <<word>>]
            ELSE [lines |-> st.lines, current_line |-> <<word>>]

RECURSIVE ihb_WrapLoop(_, _, _, _)
ihb_WrapLoop(st, ws, font, max_width) ==
    IF ws = <<>> THEN st
    ELSE ihb_WrapLoop(ihb_WrapStep(st, Head(ws), font, max_width), Tail(ws),
                      font, max_width)

ihb_wrap_text(text, font, max_width) ==
    LET st == ihb_WrapLoop([lines |-> <<>>, current_line |-> <<>>],
                           Split(text), font, max_width)
    IN IF st.current_line # <<>>
       THEN Append(st.lines, Join(st.current_line))
       ELSE st.lines

\* top_padding = int(VIDEO_HEIGHT * 0.12)
ihb_top_padding == (ihb_VIDEO_HEIGHT * 12) \div 100

\* white_box_height = top_padding + total_text_height + text_padding * 2
ihb_white_box_height(lns) ==
    LET total_text_height == Len(lns) * ihb_line_height
    IN ihb_top_padding + total_text_height + ihb_text_padding * 2

\* scale = VIDEO_WIDTH / img_w; new_h = int(img_h * scale)
ihb_new_h(size) == RatInt(Rat(size[2] * ihb_VIDEO_WIDTH, size[1]))

\* img_y = white_box_height + (VIDEO_HEIGHT - white_box_height - new_h) // 2
ihb_img_y_below_box(white_box_height, new_h) == white_box_height

ihb_img_y(white_box_height, new_h) ==
    white_box_height + (ihb_VIDEO_HEIGHT - white_box_height - new_h) \div 2

\* fade_progress = (current_time - black_duration) / fade_duration
\* fade_progress = min(1.0, fade_progress)
ihb_fade_progress(current_time) ==
    LET fade_progress ==
            RatDiv(RatSub(current_time, Rat(ihb_black_duration, 1)),
                   Rat(ihb_fade_duration, 1))
    IN RatMin(Rat(1, 1), fade_progress)

\* if current_time >= black_duration: ... if fade_progress > 0:
ihb_pastes_image(current_time) ==
    IF RatLE(Rat(ihb_black_duration, 1), current_time)
    THEN RatLT(Rat(0, 1), ihb_fade_progress(current_time))
    ELSE FALSE

ihb_build_frame(frame_idx, image, hook_text, fps, font_name) ==
    LET font == get_font(font_name)
        lns == ihb_wrap_text(hook_text, font, ihb_VIDEO_WIDTH - ihb_WRAP_MARGIN)
        white_box_height == ihb_white_box_height(lns)
        start_y == ihb_top_padding + ihb_text_padding
        white_box ==
            [kind |-> "white_box",
             size |-> <<ihb_VIDEO_WIDTH, white_box_height>>,
             at   |-> <<0, 0>>,
             text |-> [k \in 1..Len(lns) |->
                         [line |-> lns[k],
                          x |-> (ihb_VIDEO_WIDTH - Measure(lns[k], font)) \div 2,
                          y |-> start_y + (k - 1) * ihb_line_height]]]
        current_time == Rat(frame_idx, fps)
        new_w == ihb_VIDEO_WIDTH
        new_h == ihb_new_h(image.size)
        img_x == 0
        img_y == ihb_img_y(white_box_height, new_h)
        fade_progress == ihb_fade_progress(current_time)
        img_with_fade ==
            [kind |-> "image",
             size |-> <<new_w, new_h>>,
             at |-> <<img_x, img_y>>,
             fade_progress |-> fade_progress,
             alpha |-> RatInt(Rat(image.alpha * fade_progress.num,
                                  fade_progress.den))]
        frame ==
            [kind |-> "background",
             size |-> <<ihb_VIDEO_WIDTH, ihb_VIDEO_HEIGHT>>, at |-> <<0, 0>>]
    IN [current_time |-> current_time,
        fade_progress |-> IF RatLE(Rat(ihb_black_duration, 1), current_time)
                          THEN fade_progress ELSE None,
        layers |-> IF ihb_pastes_image(current_time)
                   THEN <<frame, white_box, img_with_fade>>
                   ELSE <<frame, white_box>>]

(***************************************************************************)
(* create_video.                                                           *)
(***************************************************************************)
\* total_frames = int(duration * fps)
TotalFramesWithEndFrame(duration, fps) ==
    RatInt(Rat(duration.num * fps, duration.den)) + 1

TotalFrames(duration, fps) == RatInt(Rat(duration.num * fps, duration.den))

\* for i in range(total_frames):
InRangeInclusive(i, total_frames) == i <= total_frames

InRange(i, total_frames) == i < total_frames

(***************************************************************************)
(* generate_hooks_with_llm: the string operations on the response text.    *)
(***************************************************************************)
\* s.strip(): s without its leading and trailing whitespace
RECURSIVE LStrip(_)
LStrip(s) ==
    IF s # <<>> /\ Head(s) \in Whitespace THEN LStrip(Tail(s)) ELSE s

RECURSIVE RStrip(_)
RStrip(s) ==
    IF s # <<>> /\ s[Len(s)] \in Whitespace
    THEN RStrip(SubSeq(s, 1, Len(s) - 1))
    ELSE s

Strip(s) == RStrip(LStrip(s))

\* s.split("\n"): the pieces between the line feeds, empty ones included
RECURSIVE SplitLinesFrom(_, _, _)
SplitLinesFrom(s, cur, acc) ==
    IF s = <<>> THEN Append(acc, cur)
    ELSE IF Head(s) = "\n"
         THEN SplitLinesFrom(Tail(s), <<>>, Append(acc, cur))
         ELSE SplitLinesFrom(Tail(s), Append(cur, Head(s)), acc)

SplitLines(s) == SplitLinesFrom(s, <<>>, <<>>)

\* seq[:n]
SliceTo(seq, n) ==
    IF n >= 0
    THEN SubSeq(seq, 1, IF n < Len(seq) THEN n ELSE Len(seq))
    ELSE SubSeq(seq, 1, Len(seq) + n)

\* [h.strip() for h in pieces if h.strip()]
RECURSIVE StripNonBlank(_)
StripNonBlank(pieces) ==
    IF pieces = <<>> THEN <<>>
    ELSE IF Strip(Head(pieces)) # <<>>
         THEN <<Strip(Head(pieces))>> \o StripNonBlank(Tail(pieces))
         ELSE StripNonBlank(Tail(pieces))

RECURSIVE StripAll(_)
StripAll(pieces) ==
    IF pieces = <<>> THEN <<>>
    ELSE <<Strip(Head(pieces))>> \o StripAll(Tail(pieces))

\* hooks = [h.strip() for h in content.strip().split("\n") if h.strip()]
\* return hooks[:num_hooks]
ParseHooksKeepsBlankLines(content, num_hooks) ==
    SliceTo(StripAll(SplitLines(Strip(content))), num_hooks)

ParseHooks(content, num_hooks) ==
    SliceTo(StripNonBlank(SplitLines(Strip(content))), num_hooks)

\* except Exception as e: every failure between requests.post and the parsed
\* content is caught (requests' errors, HTTPError of raise_for_status, the
\* ValueError, KeyError, IndexError or TypeError of a malformed body)
CatchesOnlyRequestErrors(failure) == failure \in {"transport", "timeout", "status"}

CatchesException(failure) == TRUE

\* if not OPENROUTER_API_KEY:
NoKeyNeverTrue(key) == FALSE

NoKey(key) == key = ""

\* the fixed results; each text is one token of the model
PLACEHOLDER_HOOKS == << <<"Add your hook text here...">> >>

FALLBACK_HOOKS ==
    << <<"When this hits different...">>,
       <<"POV: You finally get it...">>,
       <<"This is your sign...">> >>

\* str.lower() on the extensions the model uses
Lower(token) ==
    CASE token = "JPG" -> "jpg"
      [] token = "PNG" -> "png"
      [] OTHER -> token

\* ext = image_path.split(".")[-1].lower(); an image_path is the sequence of
\* its pieces between the dots
Ext(image_path) == Lower(image_path[Len(image_path)])

\* mime_type = f"image/{ext}" if ext != "jpg" else "image/jpeg"
MimeType(image_path) ==
    IF Ext(image_path) # "jpg" THEN <<"image/", Ext(image_path)>>
    ELSE <<"image/jpeg">>

\* describe_image_with_llm: what its try block can raise. open() raises OSError
\* on an unreadable file; the rest as in generate_hooks_with_llm.
DescribeFailures == {"unreadable", "transport", "timeout", "status", "malformed"}

\* except Exception as e: of describe_image_with_llm
DescribeCatchesOnlyRequestErrors(failure) ==
    failure \in {"transport", "timeout", "status"}

DescribeCatchesException(failure) == TRUE

\* the fixed description; one token of the model
FALLBACK_DESCRIPTION == <<"an interesting meme or image">>

\* rephrase_comment_as_hook: return ...["content"].strip()
RephraseResultTruncated(content) == SliceTo(Strip(content), HOOK_MAX_CHARS)

RephraseResult(content) == Strip(content)

\* except Exception as e: of rephrase_comment_as_hook
RephraseCatchesOnlyRequestErrors(failure) ==
    failure \in {"transport", "timeout", "status"}

RephraseCatchesException(failure) == TRUE

(***************************************************************************)
(* fetch_reddit_posts: the items of a result set are records that hold the  *)
(* keys the scraper gave them; a URL is the sequence of its pieces; a dict  *)
(* that is iterated is the sequence of its [key, value] entries in          *)
(* insertion order.                                                         *)
(***************************************************************************)
\* item.get(key, default)
Get(item, key, default) == IF key \in DOMAIN item THEN item[key] ELSE default

\* "i.redd.it" in link
IMAGE_HOST == "i.redd.it"

Contains(link, piece) == \E k \in 1..Len(link) : link[k] = piece

\* link.endswith(('.jpg', '.jpeg', '.png', '.gif', '.webp'))
IMAGE_EXTENSIONS == {".jpg", ".jpeg", ".png", ".gif", ".webp"}

EndsWith(link, suffixes) == link # <<>> /\ link[Len(link)] \in suffixes

\* image_url = None; if image_urls: ... elif link and (...): ...
ImageUrlOfAnyLink(item) ==
    IF Get(item, "imageUrls", <<>>) # <<>>
    THEN Get(item, "imageUrls", <<>>)[1]
    ELSE IF Get(item, "link", <<>>) # <<>>
         THEN Get(item, "link", <<>>)
         ELSE None

ImageUrlOf(item) ==
    IF Get(item, "imageUrls", <<>>) # <<>>
    THEN Get(item, "imageUrls", <<>>)[1]
    ELSE IF /\ Get(item, "link", <<>>) # <<>>
            /\ \/ Contains(Get(item, "link", <<>>), IMAGE_HOST)
               \/ EndsWith(Get(item, "link", <<>>), IMAGE_EXTENSIONS)
         THEN Get(item, "link", <<>>)
         ELSE None

\* if image_url:
Truthy(url) == url # None /\ url # <<>>

\* key in d
HasKey(d, key) == \E k \in 1..Len(d) : d[k].key = key

\* d[key]
Lookup(d, key) == d[CHOOSE k \in 1..Len(d) : d[k].key = key].value

\* d[key] = value: a key already there keeps its place
Put(d, key, value) ==
    IF HasKey(d, key)
    THEN [k \in 1..Len(d) |->
            IF d[k].key = key THEN [key |-> key, value |-> value] ELSE d[k]]
    ELSE Append(d, [key |-> key, value |-> value])

\* list(d.values())
Values(d) == [k \in 1..Len(d) |-> d[k].value]

\* the post entry built from a post item
PostEntry(item, post_id, subreddit) ==
    [id |-> Get(item, "parsedId", post_id),
     title |-> Get(item, "title", ""),
     image_url |-> ImageUrlOf(item),
     score |-> Get(item, "upVotes", 0),
     permalink |-> Get(item, "url", <<"https://reddit.com/r/", subreddit>>),
     top_comments |-> <<>>]

\* if body and 10 < len(body) < 300:
KeepsBodyInclusive(body) ==
    body # <<>> /\ MIN_BODY_LEN <= Len(body) /\ Len(body) <= MAX_BODY_LEN

KeepsBody(body) ==
    body # <<>> /\ MIN_BODY_LEN < Len(body) /\ Len(body) < MAX_BODY_LEN

\* the body of "if data_type == 'post':"; st holds posts and comments_by_post
ScanPost(st, item, subreddit) ==
    IF Truthy(ImageUrlOf(item))
    THEN [posts |-> Put(st.posts, Get(item, "id", ""),
                        PostEntry(item, Get(item, "id", ""), subreddit)),
          comments_by_post |->
              Put(st.comments_by_post, Get(item, "id", ""), <<>>)]
    ELSE st

\* the body of "elif data_type == 'comment':"
ScanComment(st, item) ==
    LET post_id == Get(item, "postId", "")
        known == IF HasKey(st.comments_by_post, post_id)
                 THEN st.comments_by_post
                 ELSE Put(st.comments_by_post, post_id, <<>>)
        body == Get(item, "body", <<>>)
    IN  [posts |-> st.posts,
         comments_by_post |->
             IF KeepsBody(body)
             THEN Put(known, post_id,
                      Append(Lookup(known, post_id),
                             [text |-> body, score |-> Get(item, "upVotes", 0)]))
             ELSE known]

\* one turn of "for item in items:"
ScanItem(st, item, subreddit) ==
    CASE Get(item, "dataType", "") = "post" -> ScanPost(st, item, subreddit)
      [] Get(item, "dataType", "") = "comment" -> ScanComment(st, item)
      [] OTHER -> st

\* posts = {}; comments_by_post = {}; for item in items: ...
RECURSIVE ScanFrom(_, _, _, _)
ScanFrom(items, k, st, subreddit) ==
    IF k > Len(items) THEN st
    ELSE ScanFrom(items, k + 1, ScanItem(st, items[k], subreddit), subreddit)

Scan(items, subreddit) ==
    ScanFrom(items, 1, [posts |-> <<>>, comments_by_post |-> <<>>], subreddit)

\* sorted(comments, key=lambda x: x["score"], reverse=True): a stable sort,
\* so a comment goes behind those already placed with a score at least its own
InsertByScore(sorted, c) ==
    LET n == Cardinality({k \in 1..Len(sorted) : sorted[k].score >= c.score})
    IN  SubSeq(sorted, 1, n) \o <<c>> \o SubSeq(sorted, n + 1, Len(sorted))

RECURSIVE SortedByScoreFrom(_, _, _)
SortedByScoreFrom(comments, k, sorted) ==
    IF k > Len(comments) THEN sorted
    ELSE SortedByScoreFrom(comments, k + 1, InsertByScore(sorted, comments[k]))

SortedByScore(comments) == SortedByScoreFrom(comments, 1, <<>>)

\* for post_id, post in posts.items(): post["top_comments"] = sorted(...)[:3]
MatchComments(st) ==
    [k \in 1..Len(st.posts) |->
        IF HasKey(st.comments_by_post, st.posts[k].key)
        THEN [key |-> st.posts[k].key,
              value |-> [st.posts[k].value EXCEPT !.top_comments =
                  SliceTo(SortedByScore(Lookup(st.comments_by_post,
                                               st.posts[k].key)),
                          TOP_COMMENTS)]]
        ELSE st.posts[k]]

\* results = list(posts.values())[:limit]
Results(posts, limit) == SliceTo(Values(posts), limit)

\* if not APIFY_API_TOKEN:
NoTokenNeverTrue(token) == FALSE

NoToken(token) == token = ""

\* if status != "SUCCEEDED":
RunSucceededOrRunning(status) == status \in {"SUCCEEDED", "RUNNING"}

RunSucceeded(status) == status = "SUCCEEDED"

\* sort_mapping.get(sort, "hot")
ApifySort(sort) == IF sort \in {"hot", "top", "new"} THEN sort ELSE "hot"

\* what the try block of fetch_reddit_posts can raise: requests' own errors
\* (connection, timeout, HTTPError of raise_for_status), a body that is not
\* JSON, a missing key in the run data, a value of the wrong type
FetchFailures ==
    {"transport", "timeout", "status", "not_json", "missing_key", "wrong_type"}

\* the except clauses that can catch a failure, by the message they give the
\* error; the JSON error of response.json() is a RequestException in recent
\* versions of requests and a plain ValueError in older ones
ExceptClausesRequestOnly(failure) ==
    IF failure \in {"transport", "timeout", "status"}
    THEN {"Apify API error: "}
    ELSE {}

ExceptClauses(failure) ==
    CASE failure \in {"transport", "timeout", "status"} -> {"Apify API error: "}
      [] failure = "not_json" -> {"Apify API error: ", "Error fetching posts: "}
      [] OTHER -> {"Error fetching posts: "}

\* limit = min(int(request.args.get('limit', 10)), 25)
RouteLimit(query_limit) ==
    IF query_limit < MAX_LIMIT THEN query_limit ELSE MAX_LIMIT

NOT_CONFIGURED == <<"Apify API not configured. Set APIFY_API_TOKEN in .env">>

(***************************************************************************)
(* The routes.  A file name is the sequence of its pieces, "." and "/"     *)
(* being pieces of their own; a scratch path is the uuid4 it starts with   *)
(* and the rest of its name; the scratch directory is the set of its files *)
(* with the request that wrote each.                                       *)
(***************************************************************************)
ALLOWED_EXTENSIONS == {"png", "jpg", "jpeg", "gif", "webp"}

\* '.' in filename
HasDot(filename) == \E k \in 1..Len(filename) : filename[k] = "."

\* filename.rsplit('.', 1)[1]
AfterLastDot(filename) ==
    LET k == CHOOSE d \in 1..Len(filename) :
                 /\ filename[d] = "."
                 /\ \A j \in (d + 1)..Len(filename) : filename[j] # "."
    IN  SubSeq(filename, k + 1, Len(filename))

\* return '.' in filename and filename.rsplit('.', 1)[1].lower() in ALLOWED_EXTENSIONS
allowed_file(filename) ==
    /\ HasDot(filename)
    /\ Len(AfterLastDot(filename)) = 1
    /\ Lower(AfterLastDot(filename)[1]) \in ALLOWED_EXTENSIONS

\* werkzeug's secure_filename on the pieces of the model: a path separator
\* becomes an underscore
secure_filename(filename) ==
    [k \in 1..Len(filename) |-> IF filename[k] = "/" THEN "_" ELSE filename[k]]

\* secure_filename(f"{uuid.uuid4()}_{file.filename}") in UPLOAD_FOLDER
UploadPathWithoutUuid(uuid, filename) ==
    [uuid |-> 0 * uuid, name |-> <<"_">> \o secure_filename(filename)]

UploadPath(uuid, filename) ==
    [uuid |-> uuid, name |-> <<"_">> \o secure_filename(filename)]

\* f"{uuid.uuid4()}.mp4" in UPLOAD_FOLDER
VideoPath(uuid) == [uuid |-> uuid, name |-> <<".", "mp4">>]

\* download_reddit_image: the extension from the content type
DownloadExt(content_type) ==
    IF Contains(content_type, "png") THEN "png"
    ELSE IF Contains(content_type, "gif") THEN "gif"
    ELSE IF Contains(content_type, "webp") THEN "webp"
    ELSE "jpg"

\* f"{uuid.uuid4()}.{ext}" in UPLOAD_FOLDER
DownloadPath(uuid, content_type) ==
    [uuid |-> uuid, name |-> <<".", DownloadExt(content_type)>>]

\* file.save(path), open(path, 'wb'), write_videofile(path): the file at
\* that path is now the one this request wrote
WriteFile(files, path, r) ==
    {f \in files : f.path # path} \cup {[path |-> path, by |-> r]}

\* if os.path.exists(image_path): os.remove(image_path)
RemoveNothing(files, path) == files

RemoveIfExists(files, path) == {f \in files : f.path # path}

\* data.get(key, '')
JsonField(req) == IF req.has_field THEN req.field ELSE <<>>

\* the checks each route makes before it does anything; "" when they pass
ValidationErrorNone(req) == ""

ValidationError(req) ==
    CASE req.route \in {"/generate-hooks", "/create-video"} ->
            IF ~req.has_image THEN "No image provided"
            ELSE IF req.filename = <<>> \/ ~allowed_file(req.filename)
                 THEN "Invalid file type"
                 ELSE ""
      [] req.route = "/reddit/rephrase" ->
            IF JsonField(req) = <<>> THEN "No comment provided" ELSE ""
      [] req.route = "/reddit/create-video" ->
            IF JsonField(req) = <<>> THEN "No image URL provided" ELSE ""

\* jsonify({'error': ...}), status
ErrorResponse(status_code, message) ==
    [status |-> status_code, body |-> [error |-> message]]

(***************************************************************************)
(* State.                                                                  *)
(***************************************************************************)
VARIABLES
    \* wrap_text in progress
    w_text, w_font, w_max_width, words, word_idx, current_line, lines, w_pc,
    \* create_video in progress: its arguments, its locals, the calls of
    \* build_frame made so far, and what the encoder was given
    image_file, hook_text, font_name, duration, fps,
    image, total_frames, i, video_frames, calls, clip, cv_pc,
    \* build_frame called on its own: the index and the result of the last
    \* call, and the arguments and the result of the call before it
    r_idx, r_frame, r_prev,
    \* generate_hooks_with_llm in progress: the configured key, the arguments,
    \* the requests posted to the gateway, its response, the returned list
    OPENROUTER_API_KEY, image_description, num_hooks, gh_posts, gh_response,
    gh_result, gh_pc,
    \* describe_image_with_llm in progress: its argument, what the file at that
    \* path holds (None if it cannot be read), the requests posted, the
    \* content of the response, the exception caught and the returned text
    image_path, di_file, di_posts, di_response, di_error, di_result, di_pc,
    \* rephrase_comment_as_hook in progress: its arguments, the requests
    \* posted, the content of the response, the exception caught and the
    \* returned text
    comment_text, post_title, rc_posts, rc_response, rc_error, rc_result, rc_pc,
    \* fetch_reddit_posts in progress: the configured token, the arguments,
    \* the requests sent to the scraping gateway, the status of the run, the
    \* items of the result set, the two dicts built from them, the failure
    \* caught and the returned value
    APIFY_API_TOKEN, subreddit_name, sort, limit, fr_requests, status, items,
    posts, comments_by_post, fr_error, fr_result, fr_pc,
    \* the routes: for each request in progress what it carries, where its
    \* handler stands, its scratch paths, how create_video ended, the external
    \* calls made for it and its response; the files of the scratch directory
    \* and the number of uuid4 values drawn so far
    rq, rq_pc, rq_image_path, rq_video_path, rq_outcome, rq_calls, rq_response,
    scratch, uuids

wrapVars == <<w_text, w_font, w_max_width, words, word_idx, current_line,
              lines, w_pc>>

videoVars == <<image_file, hook_text, font_name, duration, fps,
               image, total_frames, i, video_frames, calls, clip, cv_pc>>

renderVars == <<r_idx, r_frame, r_prev>>

hooksVars == <<OPENROUTER_API_KEY, image_description, num_hooks, gh_posts,
               gh_response, gh_result, gh_pc>>

describeVars == <<image_path, di_file, di_posts, di_response, di_error,
                  di_result, di_pc>>

rephraseVars == <<comment_text, post_title, rc_posts, rc_response, rc_error,
                  rc_result, rc_pc>>

fetchVars == <<APIFY_API_TOKEN, subreddit_name, sort, limit, fr_requests,
               status, items, posts, comments_by_post, fr_error, fr_result,
               fr_pc>>

routeVars == <<rq, rq_pc, rq_image_path, rq_video_path, rq_outcome, rq_calls,
               rq_response, scratch, uuids>>

vars == <<wrapVars, videoVars, renderVars, hooksVars, describeVars,
          rephraseVars, fetchVars, routeVars>>

\* what the actions of one component leave alone
notWrap == <<videoVars, renderVars, hooksVars, describeVars, rephraseVars,
    fetchVars, routeVars>>
notVideo == <<wrapVars, renderVars, hooksVars, describeVars, rephraseVars,
    fetchVars, routeVars>>
notRender == <<wrapVars, hooksVars, describeVars, rephraseVars,
    fetchVars, routeVars>>
notHooks == <<wrapVars, videoVars, renderVars, describeVars, rephraseVars,
    fetchVars, routeVars>>
notDescribe == <<wrapVars, videoVars, renderVars, hooksVars, rephraseVars,
    fetchVars, routeVars>>
notRephrase == <<wrapVars, videoVars, renderVars, hooksVars, describeVars,
    fetchVars, routeVars>>
notFetch == <<wrapVars, videoVars, renderVars, hooksVars, describeVars,
    rephraseVars, routeVars>>
notRoutes == <<wrapVars, videoVars, renderVars, hooksVars, describeVars,
    rephraseVars, fetchVars>>

RECURSIVE SeqsUpTo(_, _)
SeqsUpTo(S, n) ==
    IF n = 0 THEN {<<>>}
    ELSE LET shorter == SeqsUpTo(S, n - 1) IN
         shorter \cup {Append(s, c) : s \in {t \in shorter : Len(t) = n - 1},
                                      c \in S}

Texts == SeqsUpTo(TextChars, MaxTextLen)

MaxWidths == {VIDEO_WIDTH - WRAP_MARGIN, TEXT_BOX_MAX_WIDTH - TEXT_BOX_PADDING * 2}

(***************************************************************************)
(* wrap_text as a process: SpecWrap.                                       *)
(***************************************************************************)
WrapInit ==
    /\ w_text \in Texts
    /\ w_font \in FontNames
    /\ w_max_width \in MaxWidths
    /\ words = Split(w_text)
    /\ word_idx = 1
    /\ current_line = <<>>
    /\ lines = <<>>
    /\ w_pc = "loop"
    \* nothing else is running
    /\ OPENROUTER_API_KEY = "" /\ image_description = "" /\ num_hooks = 0
    /\ gh_posts = <<>> /\ gh_response = None /\ gh_result = <<>>
    /\ gh_pc = "idle"
    /\ image_file = None /\ hook_text = <<>> /\ font_name = "default"
    /\ duration = Rat(0, 1) /\ fps = 1
    /\ image = None /\ total_frames = 0 /\ i = 0 /\ video_frames = <<>>
    /\ calls = <<>> /\ clip = None /\ cv_pc = "idle"
    /\ r_idx = 0 /\ r_frame = None /\ r_prev = None
    /\ image_path = <<>> /\ di_file = None /\ di_posts = <<>>
    /\ di_response = None /\ di_error = "" /\ di_result = <<>>
    /\ di_pc = "idle"
    /\ comment_text = <<>> /\ post_title = <<>> /\ rc_posts = <<>>
    /\ rc_response = None /\ rc_error = "" /\ rc_result = <<>>
    /\ rc_pc = "idle"
    /\ APIFY_API_TOKEN = "" /\ subreddit_name = "" /\ sort = "" /\ limit = 0
    /\ fr_requests = <<>> /\ status = "" /\ items = None /\ posts = <<>>
    /\ comments_by_post = <<>> /\ fr_error = "" /\ fr_result = None
    /\ fr_pc = "idle"
    /\ rq = <<>> /\ rq_pc = <<>> /\ rq_image_path = <<>> /\ rq_video_path = <<>>
    /\ rq_outcome = <<>> /\ rq_calls = <<>> /\ rq_response = <<>>
    /\ scratch = {} /\ uuids = 0

\* for word in words: ...
WrapWord ==
    /\ w_pc = "loop"
    /\ word_idx <= Len(words)
    /\ LET st == WrapStep([lines |-> lines, current_line |-> current_line],
                          words[word_idx], get_font(w_font), w_max_width)
       IN /\ lines' = st.lines
          /\ current_line' = st.current_line
    /\ word_idx' = word_idx + 1
    /\ UNCHANGED <<w_text, w_font, w_max_width, words, w_pc>>
    /\ UNCHANGED notWrap

\* if current_line: lines.append(' '.join(current_line)); return lines
WrapReturn ==
    /\ w_pc = "loop"
    /\ word_idx > Len(words)
    /\ lines' = WrapFinish([lines |-> lines, current_line |-> current_line])
    /\ current_line' = <<>>
    /\ w_pc' = "done"
    /\ UNCHANGED <<w_text, w_font, w_max_width, words, word_idx>>
    /\ UNCHANGED notWrap

WrapNext == WrapWord \/ WrapReturn

(***************************************************************************)
(* create_video as a process: SpecVideo.                                   *)
(***************************************************************************)
\* hook texts: empty, one line, two lines in the TrueType face, three lines
\* in the TrueType face (two in the default one), one word wider than the box
HookTexts ==
    {<<>>,
     <<"a">>,
     <<"W", " ", "W">>,
     <<"W", " ", "W", " ", "W">>,
     <<"a", "a", "a", "a", "a", " ", "a">>}

\* the files create_video may be given: size and pixel alpha of the decoded
\* image, or a file PIL cannot decode
ImageFiles ==
    {[decodable |-> TRUE, size |-> <<500, 800>>, alpha |-> 255],
     [decodable |-> TRUE, size |-> <<400, 1000>>, alpha |-> 128],
     [decodable |-> TRUE, size |-> <<1080, 101>>, alpha |-> 255],
     [decodable |-> FALSE, size |-> <<0, 0>>, alpha |-> 0]}

\* Image.open(image_path).convert("RGBA")
Decoded(file) == [size |-> file.size, mode |-> "RGBA", alpha |-> file.alpha]

\* durations in half seconds (exact as floats), frame rates
Durations == {Rat(n, 2) : n \in 0..(2 * MaxDuration)}
FrameRates == {1, 3, DEFAULT_FPS}

VideoHookTexts == {t \in HookTexts : Len(t) <= 3}

VideoInit ==
    /\ image_file \in ImageFiles
    /\ hook_text \in VideoHookTexts
    /\ font_name \in FontNames
    /\ duration \in Durations
    /\ fps \in FrameRates
    /\ image = None /\ total_frames = 0 /\ i = 0 /\ video_frames = <<>>
    /\ calls = <<>> /\ clip = None
    /\ cv_pc = "open"
    \* nothing else is running
    /\ OPENROUTER_API_KEY = "" /\ image_description = "" /\ num_hooks = 0
    /\ gh_posts = <<>> /\ gh_response = None /\ gh_result = <<>>
    /\ gh_pc = "idle"
    /\ r_idx = 0 /\ r_frame = None /\ r_prev = None
    /\ w_text = <<>> /\ w_font = "default" /\ w_max_width = 0
    /\ words = <<>> /\ word_idx = 0 /\ current_line = <<>> /\ lines = <<>>
    /\ w_pc = "idle"
    /\ image_path = <<>> /\ di_file = None /\ di_posts = <<>>
    /\ di_response = None /\ di_error = "" /\ di_result = <<>>
    /\ di_pc = "idle"
    /\ comment_text = <<>> /\ post_title = <<>> /\ rc_posts = <<>>
    /\ rc_response = None /\ rc_error = "" /\ rc_result = <<>>
    /\ rc_pc = "idle"
    /\ APIFY_API_TOKEN = "" /\ subreddit_name = "" /\ sort = "" /\ limit = 0
    /\ fr_requests = <<>> /\ status = "" /\ items = None /\ posts = <<>>
    /\ comments_by_post = <<>> /\ fr_error = "" /\ fr_result = None
    /\ fr_pc = "idle"
    /\ rq = <<>> /\ rq_pc = <<>> /\ rq_image_path = <<>> /\ rq_video_path = <<>>
    /\ rq_outcome = <<>> /\ rq_calls = <<>> /\ rq_response = <<>>
    /\ scratch = {} /\ uuids = 0

\* image = Image.open(image_path).convert("RGBA"); video_frames = [];
\* total_frames = int(duration * fps)
OpenImage ==
    /\ cv_pc = "open"
    /\ image_file.decodable
    /\ image' = Decoded(image_file)
    /\ video_frames' = <<>>
    /\ total_frames' = TotalFrames(duration, fps)
    /\ i' = 0
    /\ cv_pc' = "loop"
    /\ UNCHANGED <<image_file, hook_text, font_name, duration, fps, calls, clip>>
    /\ UNCHANGED notVideo

\* Image.open raises on a file it cannot decode
OpenImageRaises ==
    /\ cv_pc = "open"
    /\ ~image_file.decodable
    /\ cv_pc' = "raised"
    /\ UNCHANGED <<image_file, hook_text, font_name, duration, fps, image,
                   total_frames, i, video_frames, calls, clip>>
    /\ UNCHANGED notVideo

\* frame = build_frame(i, image, hook_text, fps); video_frames.append(...)
BuildNextFrame ==
    /\ cv_pc = "loop"
    /\ InRange(i, total_frames)
    /\ video_frames' = Append(video_frames,
                              build_frame(i, image, hook_text, fps, font_name))
    /\ image' = build_frame_image(i, image, fps)
    /\ calls' = Append(calls, i)
    /\ i' = i + 1
    /\ UNCHANGED <<image_file, hook_text, font_name, duration, fps,
                   total_frames, clip, cv_pc>>
    /\ UNCHANGED notVideo

\* clip = ImageSequenceClip(video_frames, fps=fps)
MakeClip ==
    /\ cv_pc = "loop"
    /\ ~InRange(i, total_frames)
    /\ clip' = [frames |-> video_frames, fps |-> fps]
    /\ cv_pc' = "encode"
    /\ UNCHANGED <<image_file, hook_text, font_name, duration, fps, image,
                   total_frames, i, video_frames, calls>>
    /\ UNCHANGED notVideo

\* clip.write_videofile(...); return output_path
WriteVideofile ==
    /\ cv_pc = "encode"
    /\ cv_pc' = "returned"
    /\ UNCHANGED <<image_file, hook_text, font_name, duration, fps, image,
                   total_frames, i, video_frames, calls, clip>>
    /\ UNCHANGED notVideo

\* the encoder reports a failure
WriteVideofileRaises ==
    /\ cv_pc = "encode"
    /\ cv_pc' = "raised"
    /\ UNCHANGED <<image_file, hook_text, font_name, duration, fps, image,
                   total_frames, i, video_frames, calls, clip>>
    /\ UNCHANGED notVideo

VideoNext ==
    \/ OpenImage
    \/ OpenImageRaises
    \/ BuildNextFrame
    \/ MakeClip
    \/ WriteVideofile
    \/ WriteVideofileRaises

(***************************************************************************)
(* create_image_hook_video of image_hook_builder.py as a process, on the   *)
(* variables of create_video: SpecHookVideo.                               *)
(***************************************************************************)
\* the arguments of create_image_hook_video(image_path, output_path,
\* hook_text, duration, fps) and the font its get_font finds
HookVideoInit ==
    /\ image_file \in ImageFiles
    /\ hook_text \in HookTexts
    /\ font_name \in FontNames
    /\ duration \in Durations
    /\ fps \in FrameRates
    /\ image = None /\ total_frames = 0 /\ i = 0 /\ video_frames = <<>>
    /\ calls = <<>> /\ clip = None
    /\ cv_pc = "open"
    \* nothing else is running
    /\ OPENROUTER_API_KEY = "" /\ image_description = "" /\ num_hooks = 0
    /\ gh_posts = <<>> /\ gh_response = None /\ gh_result = <<>>
    /\ gh_pc = "idle"
    /\ r_idx = 0 /\ r_frame = None /\ r_prev = None
    /\ w_text = <<>> /\ w_font = "default" /\ w_max_width = 0
    /\ words = <<>> /\ word_idx = 0 /\ current_line = <<>> /\ lines = <<>>
    /\ w_pc = "idle"
    /\ image_path = <<>> /\ di_file = None /\ di_posts = <<>>
    /\ di_response = None /\ di_error = "" /\ di_result = <<>>
    /\ di_pc = "idle"
    /\ comment_text = <<>> /\ post_title = <<>> /\ rc_posts = <<>>
    /\ rc_response = None /\ rc_error = "" /\ rc_result = <<>>
    /\ rc_pc = "idle"
    /\ APIFY_API_TOKEN = "" /\ subreddit_name = "" /\ sort = "" /\ limit = 0
    /\ fr_requests = <<>> /\ status = "" /\ items = None /\ posts = <<>>
    /\ comments_by_post = <<>> /\ fr_error = "" /\ fr_result = None
    /\ fr_pc = "idle"
    /\ rq = <<>> /\ rq_pc = <<>> /\ rq_image_path = <<>> /\ rq_video_path = <<>>
    /\ rq_outcome = <<>> /\ rq_calls = <<>> /\ rq_response = <<>>
    /\ scratch = {} /\ uuids = 0

\* image = Image.open(image_path).convert("RGBA"); video_frames = [];
\* total_frames = int(duration * fps)
IhbOpenImage ==
    /\ cv_pc = "open"
    /\ image_file.decodable
    /\ image' = Decoded(image_file)
    /\ video_frames' = <<>>
    /\ total_frames' = RatInt(Rat(duration.num * fps, duration.den))
    /\ i' = 0
    /\ cv_pc' = "loop"
    /\ UNCHANGED <<image_file, hook_text, font_name, duration, fps, calls, clip>>
    /\ UNCHANGED notVideo

\* Image.open raises on a file it cannot decode
IhbOpenImageRaises ==
    /\ cv_pc = "open"
    /\ ~image_file.decodable
    /\ cv_pc' = "raised"
    /\ UNCHANGED <<image_file, hook_text, font_name, duration, fps, image,
                   total_frames, i, video_frames, calls, clip>>
    /\ UNCHANGED notVideo

\* for i in range(total_frames): frame = build_frame(i, image, hook_text, fps);
\* video_frames.append(...)
IhbBuildNextFrame ==
    /\ cv_pc = "loop"
    /\ i < total_frames
    /\ video_frames' = Append(video_frames,
                              ihb_build_frame(i, image, hook_text, fps, font_name))
    /\ calls' = Append(calls, i)
    /\ i' = i + 1
    /\ UNCHANGED <<image_file, hook_text, font_name, duration, fps, image,
                   total_frames, clip, cv_pc>>
    /\ UNCHANGED notVideo

\* clip = ImageSequenceClip(video_frames, fps=fps)
IhbMakeClip ==
    /\ cv_pc = "loop"
    /\ ~(i < total_frames)
    /\ clip' = [frames |-> video_frames, fps |-> fps]
    /\ cv_pc' = "encode"
    /\ UNCHANGED <<image_file, hook_text, font_name, duration, fps, image,
                   total_frames, i, video_frames, calls>>
    /\ UNCHANGED notVideo

\* clip.write_videofile(...); return output_path
IhbWriteVideofile ==
    /\ cv_pc = "encode"
    /\ cv_pc' = "returned"
    /\ UNCHANGED <<image_file, hook_text, font_name, duration, fps, image,
                   total_frames, i, video_frames, calls, clip>>
    /\ UNCHANGED notVideo

\* the encoder reports a failure
IhbWriteVideofileRaises ==
    /\ cv_pc = "encode"
    /\ cv_pc' = "raised"
    /\ UNCHANGED <<image_file, hook_text, font_name, duration, fps, image,
                   total_frames, i, video_frames, calls, clip>>
    /\ UNCHANGED notVideo

HookVideoNext ==
    \/ IhbOpenImage
    \/ IhbOpenImageRaises
    \/ IhbBuildNextFrame
    \/ IhbMakeClip
    \/ IhbWriteVideofile
    \/ IhbWriteVideofileRaises

(***************************************************************************)
(* build_frame called directly, for any frame index and hook text, in any  *)
(* order: SpecRender.                                                      *)
(***************************************************************************)
RenderImageFiles ==
    {f \in ImageFiles : f.decodable}
    \cup {[decodable |-> TRUE, size |-> <<1080, 2401>>, alpha |-> 255]}

RenderInit ==
    /\ image_file \in RenderImageFiles
    /\ image = Decoded(image_file)
    /\ font_name \in FontNames
    /\ fps \in {1, 3}
    /\ hook_text = <<>>
    /\ duration = Rat(0, 1) /\ total_frames = 0 /\ i = 0 /\ video_frames = <<>>
    /\ calls = <<>> /\ clip = None /\ cv_pc = "render"
    /\ r_idx = 0 /\ r_frame = None /\ r_prev = None
    \* nothing else is running
    /\ OPENROUTER_API_KEY = "" /\ image_description = "" /\ num_hooks = 0
    /\ gh_posts = <<>> /\ gh_response = None /\ gh_result = <<>>
    /\ gh_pc = "idle"
    /\ w_text = <<>> /\ w_font = "default" /\ w_max_width = 0
    /\ words = <<>> /\ word_idx = 0 /\ current_line = <<>> /\ lines = <<>>
    /\ w_pc = "idle"
    /\ image_path = <<>> /\ di_file = None /\ di_posts = <<>>
    /\ di_response = None /\ di_error = "" /\ di_result = <<>>
    /\ di_pc = "idle"
    /\ comment_text = <<>> /\ post_title = <<>> /\ rc_posts = <<>>
    /\ rc_response = None /\ rc_error = "" /\ rc_result = <<>>
    /\ rc_pc = "idle"
    /\ APIFY_API_TOKEN = "" /\ subreddit_name = "" /\ sort = "" /\ limit = 0
    /\ fr_requests = <<>> /\ status = "" /\ items = None /\ posts = <<>>
    /\ comments_by_post = <<>> /\ fr_error = "" /\ fr_result = None
    /\ fr_pc = "idle"
    /\ rq = <<>> /\ rq_pc = <<>> /\ rq_image_path = <<>> /\ rq_video_path = <<>>
    /\ rq_outcome = <<>> /\ rq_calls = <<>> /\ rq_response = <<>>
    /\ scratch = {} /\ uuids = 0

\* frame = build_frame(frame_idx, image, hook_text, fps)
CallBuildFrame ==
    /\ cv_pc = "render"
    /\ \E idx \in 0..MaxFrameIdx, ht \in HookTexts :
          /\ hook_text' = ht
          /\ r_idx' = idx
          /\ r_frame' = build_frame(idx, image, ht, fps, font_name)
          /\ r_prev' = IF r_frame = None THEN None
                       ELSE [idx |-> r_idx, hook_text |-> hook_text,
                             frame |-> r_frame]
          /\ image' = build_frame_image(idx, image, fps)
    /\ UNCHANGED <<image_file, font_name, duration, fps, total_frames, i,
                   video_frames, calls, clip, cv_pc>>
    /\ UNCHANGED notRender

RenderNext == CallBuildFrame

(***************************************************************************)
(* generate_hooks_with_llm as a process: SpecHooks.                        *)
(***************************************************************************)
Contents == SeqsUpTo({"a", " ", "\n"}, MaxContentLen)

NumHooks == (0..MaxNumHooks) \cup {DEFAULT_NUM_HOOKS}

\* what can go wrong between requests.post and the parsed content
Failures == {"transport", "timeout", "status", "malformed"}

HooksInit ==
    /\ OPENROUTER_API_KEY \in {"", "sk-or-key"}
    /\ image_description \in {"an interesting meme or image", "a cat"}
    /\ num_hooks \in NumHooks
    /\ gh_posts = <<>>
    /\ gh_response = None
    /\ gh_result = <<>>
    /\ gh_pc = "start"
    \* nothing else is running
    /\ w_text = <<>> /\ w_font = "default" /\ w_max_width = 0
    /\ words = <<>> /\ word_idx = 0 /\ current_line = <<>> /\ lines = <<>>
    /\ w_pc = "idle"
    /\ image_file = None /\ hook_text = <<>> /\ font_name = "default"
    /\ duration = Rat(0, 1) /\ fps = 1
    /\ image = None /\ total_frames = 0 /\ i = 0 /\ video_frames = <<>>
    /\ calls = <<>> /\ clip = None /\ cv_pc = "idle"
    /\ r_idx = 0 /\ r_frame = None /\ r_prev = None
    /\ image_path = <<>> /\ di_file = None /\ di_posts = <<>>
    /\ di_response = None /\ di_error = "" /\ di_result = <<>>
    /\ di_pc = "idle"
    /\ comment_text = <<>> /\ post_title = <<>> /\ rc_posts = <<>>
    /\ rc_response = None /\ rc_error = "" /\ rc_result = <<>>
    /\ rc_pc = "idle"
    /\ APIFY_API_TOKEN = "" /\ subreddit_name = "" /\ sort = "" /\ limit = 0
    /\ fr_requests = <<>> /\ status = "" /\ items = None /\ posts = <<>>
    /\ comments_by_post = <<>> /\ fr_error = "" /\ fr_result = None
    /\ fr_pc = "idle"
    /\ rq = <<>> /\ rq_pc = <<>> /\ rq_image_path = <<>> /\ rq_video_path = <<>>
    /\ rq_outcome = <<>> /\ rq_calls = <<>> /\ rq_response = <<>>
    /\ scratch = {} /\ uuids = 0

\* if not OPENROUTER_API_KEY: return ["Add your hook text here..."]
ReturnPlaceholder ==
    /\ gh_pc = "start"
    /\ NoKey(OPENROUTER_API_KEY)
    /\ gh_result' = PLACEHOLDER_HOOKS
    /\ gh_pc' = "done"
    /\ UNCHANGED <<OPENROUTER_API_KEY, image_description, num_hooks, gh_posts,
                   gh_response>>
    /\ UNCHANGED notHooks

\* response = requests.post(..., json={..., "content": prompt}, timeout=30)
PostPrompt ==
    /\ gh_pc = "start"
    /\ ~NoKey(OPENROUTER_API_KEY)
    /\ gh_posts' = Append(gh_posts,
                          [key |-> OPENROUTER_API_KEY,
                           image_description |-> image_description,
                           num_hooks |-> num_hooks])
    /\ gh_pc' = "posted"
    /\ UNCHANGED <<OPENROUTER_API_KEY, image_description, num_hooks,
                   gh_response, gh_result>>
    /\ UNCHANGED notHooks

\* the gateway answers 2xx with a well-formed body: parse and return
ResponseParsed ==
    /\ gh_pc = "posted"
    /\ \E content \in Contents :
          /\ gh_response' = [ok |-> TRUE, content |-> content]
          /\ gh_result' = ParseHooks(content, num_hooks)
    /\ gh_pc' = "done"
    /\ UNCHANGED <<OPENROUTER_API_KEY, image_description, num_hooks, gh_posts>>
    /\ UNCHANGED notHooks

\* except Exception: return the three fixed hooks
ResponseFailed ==
    /\ gh_pc = "posted"
    /\ \E failure \in Failures :
          /\ gh_response' = [ok |-> FALSE, content |-> <<failure>>]
          /\ IF CatchesException(failure)
             THEN gh_result' = FALLBACK_HOOKS /\ gh_pc' = "done"
             ELSE gh_result' = gh_result /\ gh_pc' = "raised"
    /\ UNCHANGED <<OPENROUTER_API_KEY, image_description, num_hooks, gh_posts>>
    /\ UNCHANGED notHooks

HooksNext ==
    \/ ReturnPlaceholder
    \/ PostPrompt
    \/ ResponseParsed
    \/ ResponseFailed

(***************************************************************************)
(* describe_image_with_llm as a process: SpecDescribe.                     *)
(***************************************************************************)
ImagePaths == {<<"uploads/a", "jpg">>, <<"uploads/b", "PNG">>, <<"uploads/c">>}

\* the bytes of the file, or None where open() raises
FileContents == {None, [bytes |-> "img"]}

DescribeInit ==
    /\ OPENROUTER_API_KEY \in {"", "sk-or-key"}
    /\ image_path \in ImagePaths
    /\ di_file \in FileContents
    /\ di_posts = <<>>
    /\ di_response = None
    /\ di_error = ""
    /\ di_result = <<>>
    /\ di_pc = "start"
    \* nothing else is running
    /\ image_description = "" /\ num_hooks = 0
    /\ gh_posts = <<>> /\ gh_response = None /\ gh_result = <<>>
    /\ gh_pc = "idle"
    /\ w_text = <<>> /\ w_font = "default" /\ w_max_width = 0
    /\ words = <<>> /\ word_idx = 0 /\ current_line = <<>> /\ lines = <<>>
    /\ w_pc = "idle"
    /\ image_file = None /\ hook_text = <<>> /\ font_name = "default"
    /\ duration = Rat(0, 1) /\ fps = 1
    /\ image = None /\ total_frames = 0 /\ i = 0 /\ video_frames = <<>>
    /\ calls = <<>> /\ clip = None /\ cv_pc = "idle"
    /\ r_idx = 0 /\ r_frame = None /\ r_prev = None
    /\ comment_text = <<>> /\ post_title = <<>> /\ rc_posts = <<>>
    /\ rc_response = None /\ rc_error = "" /\ rc_result = <<>>
    /\ rc_pc = "idle"
    /\ APIFY_API_TOKEN = "" /\ subreddit_name = "" /\ sort = "" /\ limit = 0
    /\ fr_requests = <<>> /\ status = "" /\ items = None /\ posts = <<>>
    /\ comments_by_post = <<>> /\ fr_error = "" /\ fr_result = None
    /\ fr_pc = "idle"
    /\ rq = <<>> /\ rq_pc = <<>> /\ rq_image_path = <<>> /\ rq_video_path = <<>>
    /\ rq_outcome = <<>> /\ rq_calls = <<>> /\ rq_response = <<>>
    /\ scratch = {} /\ uuids = 0

\* what the except clause does with a failure of the try block
DescribeHandle(failure) ==
    /\ di_error' = failure
    /\ IF DescribeCatchesException(failure)
       THEN di_result' = FALLBACK_DESCRIPTION /\ di_pc' = "done"
       ELSE di_result' = di_result /\ di_pc' = "raised"

\* if not OPENROUTER_API_KEY: return "an interesting meme or image"
DescribeNoKey ==
    /\ di_pc = "start"
    /\ NoKey(OPENROUTER_API_KEY)
    /\ di_result' = FALLBACK_DESCRIPTION
    /\ di_pc' = "done"
    /\ UNCHANGED <<image_path, di_file, di_posts, di_response, di_error>>
    /\ UNCHANGED notDescribe

\* with open(image_path, "rb") as f: raises
DescribeOpenRaises ==
    /\ di_pc = "start"
    /\ ~NoKey(OPENROUTER_API_KEY)
    /\ di_file = None
    /\ DescribeHandle("unreadable")
    /\ UNCHANGED <<image_path, di_file, di_posts, di_response>>
    /\ UNCHANGED notDescribe

\* the file is read and encoded, and posted with its mime type
DescribePost ==
    /\ di_pc = "start"
    /\ ~NoKey(OPENROUTER_API_KEY)
    /\ di_file # None
    /\ di_posts' = Append(di_posts,
                          [key |-> OPENROUTER_API_KEY,
                           mime_type |-> MimeType(image_path),
                           image_data |-> <<"base64", di_file.bytes>>])
    /\ di_pc' = "posted"
    /\ UNCHANGED <<image_path, di_file, di_response, di_error, di_result>>
    /\ UNCHANGED notDescribe

\* return response.json()["choices"][0]["message"]["content"]
DescribeResponse ==
    /\ di_pc = "posted"
    /\ \E content \in Contents :
          /\ di_response' = [content |-> content]
          /\ di_result' = content
    /\ di_pc' = "done"
    /\ UNCHANGED <<image_path, di_file, di_posts, di_error>>
    /\ UNCHANGED notDescribe

\* requests.post, raise_for_status, response.json() or a key lookup raises
DescribeFailed ==
    /\ di_pc = "posted"
    /\ \E failure \in DescribeFailures \ {"unreadable"} : DescribeHandle(failure)
    /\ UNCHANGED <<image_path, di_file, di_posts, di_response>>
    /\ UNCHANGED notDescribe

DescribeNext ==
    \/ DescribeNoKey
    \/ DescribeOpenRaises
    \/ DescribePost
    \/ DescribeResponse
    \/ DescribeFailed

(***************************************************************************)
(* rephrase_comment_as_hook as a process: SpecRephrase.                    *)
(***************************************************************************)
CommentTexts == {<<"a">>, <<" ", "a", " ", "a", "\n">>, <<>>}

PostTitles == {<<"t">>, <<>>}

Repeat(c, n) == [k \in 1..n |-> c]

\* what the model answers: a body of a given length, shorter and longer than
\* what the prompt asked for, between optional whitespace
ReplyLens == {0, 1, HOOK_MAX_CHARS, HOOK_MAX_CHARS + 1, MaxReplyLen}

ReplyPads == {<<>>, <<" ">>, <<"\n", " ">>}

Replies ==
    {l \o body \o r :
        l \in ReplyPads, r \in ReplyPads,
        body \in {Repeat("a", n) : n \in ReplyLens} \cup {<<"a", " ", "a">>}}

RephraseInit ==
    /\ OPENROUTER_API_KEY \in {"", "sk-or-key"}
    /\ comment_text \in CommentTexts
    /\ post_title \in PostTitles
    /\ rc_posts = <<>>
    /\ rc_response = None
    /\ rc_error = ""
    /\ rc_result = <<>>
    /\ rc_pc = "start"
    \* nothing else is running
    /\ image_description = "" /\ num_hooks = 0
    /\ gh_posts = <<>> /\ gh_response = None /\ gh_result = <<>>
    /\ gh_pc = "idle"
    /\ w_text = <<>> /\ w_font = "default" /\ w_max_width = 0
    /\ words = <<>> /\ word_idx = 0 /\ current_line = <<>> /\ lines = <<>>
    /\ w_pc = "idle"
    /\ image_file = None /\ hook_text = <<>> /\ font_name = "default"
    /\ duration = Rat(0, 1) /\ fps = 1
    /\ image = None /\ total_frames = 0 /\ i = 0 /\ video_frames = <<>>
    /\ calls = <<>> /\ clip = None /\ cv_pc = "idle"
    /\ r_idx = 0 /\ r_frame = None /\ r_prev = None
    /\ image_path = <<>> /\ di_file = None /\ di_posts = <<>>
    /\ di_response = None /\ di_error = "" /\ di_result = <<>>
    /\ di_pc = "idle"
    /\ APIFY_API_TOKEN = "" /\ subreddit_name = "" /\ sort = "" /\ limit = 0
    /\ fr_requests = <<>> /\ status = "" /\ items = None /\ posts = <<>>
    /\ comments_by_post = <<>> /\ fr_error = "" /\ fr_result = None
    /\ fr_pc = "idle"
    /\ rq = <<>> /\ rq_pc = <<>> /\ rq_image_path = <<>> /\ rq_video_path = <<>>
    /\ rq_outcome = <<>> /\ rq_calls = <<>> /\ rq_response = <<>>
    /\ scratch = {} /\ uuids = 0

\* if not OPENROUTER_API_KEY: return comment_text
RephraseNoKey ==
    /\ rc_pc = "start"
    /\ NoKey(OPENROUTER_API_KEY)
    /\ rc_result' = comment_text
    /\ rc_pc' = "done"
    /\ UNCHANGED <<comment_text, post_title, rc_posts, rc_response, rc_error>>
    /\ UNCHANGED notRephrase

\* response = requests.post(..., json={..., "content": prompt}, timeout=30)
RephrasePost ==
    /\ rc_pc = "start"
    /\ ~NoKey(OPENROUTER_API_KEY)
    /\ rc_posts' = Append(rc_posts,
                          [key |-> OPENROUTER_API_KEY,
                           comment_text |-> comment_text,
                           post_title |-> post_title])
    /\ rc_pc' = "posted"
    /\ UNCHANGED <<comment_text, post_title, rc_response, rc_error, rc_result>>
    /\ UNCHANGED notRephrase

\* return response.json()["choices"][0]["message"]["content"].strip()
RephraseResponse ==
    /\ rc_pc = "posted"
    /\ \E content \in Replies :
          /\ rc_response' = [content |-> content]
          /\ rc_result' = RephraseResult(content)
    /\ rc_pc' = "done"
    /\ UNCHANGED <<comment_text, post_title, rc_posts, rc_error>>
    /\ UNCHANGED notRephrase

\* except Exception as e: return comment_text
RephraseFailed ==
    /\ rc_pc = "posted"
    /\ \E failure \in Failures :
          /\ rc_error' = failure
          /\ IF RephraseCatchesException(failure)
             THEN rc_result' = comment_text /\ rc_pc' = "done"
             ELSE rc_result' = rc_result /\ rc_pc' = "raised"
    /\ UNCHANGED <<comment_text, post_title, rc_posts, rc_response>>
    /\ UNCHANGED notRephrase

RephraseNext ==
    \/ RephraseNoKey
    \/ RephrasePost
    \/ RephraseResponse
    \/ RephraseFailed

(***************************************************************************)
(* fetch_reddit_posts as a process: SpecFetch.                             *)
(***************************************************************************)
\* post items: image by imageUrls, by a link on the image host, by a link
\* with an image extension; no image at all; and a second item with the id
\* of the first
PostA ==
    [dataType |-> "post", id |-> "t3_a", parsedId |-> "a", title |-> "A",
     imageUrls |-> << <<"https://", "preview.redd.it", "/a", ".jpg">> >>,
     link |-> <<"https://", "reddit.com", "/r/adhdmeme/a">>,
     upVotes |-> 7, url |-> <<"https://", "reddit.com", "/r/adhdmeme/a">>]

PostB ==
    [dataType |-> "post", id |-> "t3_b", title |-> "B",
     link |-> <<"https://", "i.redd.it", "/b">>, upVotes |-> 4]

PostC ==
    [dataType |-> "post", id |-> "t3_c", title |-> "C", imageUrls |-> <<>>,
     link |-> <<"https://", "imgur.com", "/c", ".png">>]

PostD ==
    [dataType |-> "post", id |-> "t3_d", title |-> "D",
     link |-> <<"https://", "example.com", "/d", ".html">>, upVotes |-> 9]

PostE ==
    [dataType |-> "post", id |-> "t3_e", title |-> "E", imageUrls |-> <<>>]

PostAAgain ==
    [dataType |-> "post", id |-> "t3_a", parsedId |-> "a", title |-> "A again",
     link |-> <<"https://", "i.redd.it", "/a2", ".gif">>, upVotes |-> 8]

\* comment items on the first post, with bodies just inside and just outside
\* the lengths kept, and one on a post that is not in the result set
Comment(post_id, c, len, score) ==
    [dataType |-> "comment", postId |-> post_id, body |-> Repeat(c, len),
     upVotes |-> score]

\* the items by name
PostNames == {"A", "B", "C", "D", "E", "A again"}

CommentNames == {"e", "f", "g", "h", "s", "l", "z"}

Item(name) ==
    CASE name = "A" -> PostA
      [] name = "B" -> PostB
      [] name = "C" -> PostC
      [] name = "D" -> PostD
      [] name = "E" -> PostE
      [] name = "A again" -> PostAAgain
      [] name = "e" -> Comment("t3_a", name, MIN_BODY_LEN + 1, 5)
      [] name = "f" -> Comment("t3_a", name, MAX_BODY_LEN - 1, 3)
      [] name = "g" -> Comment("t3_a", name, MIN_BODY_LEN + 1, 3)
      [] name = "h" -> Comment("t3_a", name, MIN_BODY_LEN + 1, 1)
      [] name = "s" -> Comment("t3_a", name, MIN_BODY_LEN, 9)
      [] name = "l" -> Comment("t3_a", name, MAX_BODY_LEN, 9)
      [] name = "z" -> Comment("t3_z", name, MIN_BODY_LEN + 1, 8)

\* the sequences of at most n different members of S
RECURSIVE Arrangements(_, _)
Arrangements(S, n) ==
    IF n = 0 THEN {<<>>}
    ELSE LET shorter == Arrangements(S, n - 1)
         IN  shorter \cup
                 {Append(p[1], p[2]) :
                     p \in {q \in shorter \X S :
                               \A k \in 1..Len(q[1]) : q[1][k] # q[2]}}

\* result sets, as the names of their items: of posts only, and of the first
\* post with its comments
Datasets ==
    Arrangements(PostNames, MaxItems)
        \cup Arrangements({"A", "A again"} \cup CommentNames, MaxItems)

ItemsOf(dataset) == [k \in 1..Len(dataset) |-> Item(dataset[k])]

\* the calls made directly, and those of GET /reddit/posts
DirectCalls ==
    {[subreddit_name |-> "adhdmeme", sort |-> "hot", limit |-> DEFAULT_LIMIT],
     [subreddit_name |-> "adhdmeme", sort |-> "rising", limit |-> 0]}

QueryArgs ==
    {[sort |-> "top", limit |-> 2], [sort |-> "new", limit |-> 0 - 1],
     [sort |-> "hot", limit |-> MAX_LIMIT + 5]}

RouteCalls ==
    {[subreddit_name |-> "adhdmeme", sort |-> a.sort,
      limit |-> RouteLimit(a.limit)] : a \in QueryArgs}

RunStatuses == {"SUCCEEDED", "FAILED", "TIMED-OUT", "ABORTED", "RUNNING"}

FetchInit ==
    /\ APIFY_API_TOKEN \in {"", "apify-token"}
    /\ \E call \in DirectCalls \cup RouteCalls :
          /\ subreddit_name = call.subreddit_name
          /\ sort = call.sort
          /\ limit = call.limit
    /\ fr_requests = <<>>
    /\ status = ""
    /\ items = None
    /\ posts = <<>>
    /\ comments_by_post = <<>>
    /\ fr_error = ""
    /\ fr_result = None
    /\ fr_pc = "start"
    \* nothing else is running
    /\ OPENROUTER_API_KEY = "" /\ image_description = "" /\ num_hooks = 0
    /\ gh_posts = <<>> /\ gh_response = None /\ gh_result = <<>>
    /\ gh_pc = "idle"
    /\ w_text = <<>> /\ w_font = "default" /\ w_max_width = 0
    /\ words = <<>> /\ word_idx = 0 /\ current_line = <<>> /\ lines = <<>>
    /\ w_pc = "idle"
    /\ image_file = None /\ hook_text = <<>> /\ font_name = "default"
    /\ duration = Rat(0, 1) /\ fps = 1
    /\ image = None /\ total_frames = 0 /\ i = 0 /\ video_frames = <<>>
    /\ calls = <<>> /\ clip = None /\ cv_pc = "idle"
    /\ r_idx = 0 /\ r_frame = None /\ r_prev = None
    /\ image_path = <<>> /\ di_file = None /\ di_posts = <<>>
    /\ di_response = None /\ di_error = "" /\ di_result = <<>>
    /\ di_pc = "idle"
    /\ comment_text = <<>> /\ post_title = <<>> /\ rc_posts = <<>>
    /\ rc_response = None /\ rc_error = "" /\ rc_result = <<>>
    /\ rc_pc = "idle"
    /\ rq = <<>> /\ rq_pc = <<>> /\ rq_image_path = <<>> /\ rq_video_path = <<>>
    /\ rq_outcome = <<>> /\ rq_calls = <<>> /\ rq_response = <<>>
    /\ scratch = {} /\ uuids = 0

\* a variant whose except clause goes back to issue the failed request again
FetchRetriesRequest(pc) ==
    IF pc = "run_requested" THEN "start" ELSE "run_succeeded"

\* where the function is after an except clause: both clauses return
FetchAfterExcept(pc) == "done"

\* what the two except clauses do with a failure of the try block
FetchHandle(failure) ==
    /\ fr_error' = failure
    /\ IF ExceptClauses(failure) = {}
       THEN fr_result' = fr_result /\ fr_pc' = "raised"
       ELSE /\ \E message \in ExceptClauses(failure) :
                  fr_result' = [error |-> <<message, failure>>]
            /\ fr_pc' = FetchAfterExcept(fr_pc)

\* if not APIFY_API_TOKEN: return {"error": "Apify API not configured. ..."}
FetchNotConfigured ==
    /\ fr_pc = "start"
    /\ NoToken(APIFY_API_TOKEN)
    /\ fr_result' = [error |-> NOT_CONFIGURED]
    /\ fr_pc' = "done"
    /\ UNCHANGED <<APIFY_API_TOKEN, subreddit_name, sort, limit, fr_requests,
                   status, items, posts, comments_by_post, fr_error>>
    /\ UNCHANGED notFetch

\* response = requests.post(run_url, json=payload, headers=headers, timeout=180)
FetchStartRun ==
    /\ fr_pc = "start"
    /\ ~NoToken(APIFY_API_TOKEN)
    /\ fr_requests' = Append(fr_requests,
          [method |-> "POST", url |-> "runs?waitForFinish=120",
           token |-> APIFY_API_TOKEN,
           startUrl |-> <<"https://www.reddit.com/r/", subreddit_name, "/",
                          ApifySort(sort), "/">>,
           maxItems |-> limit * ITEMS_PER_POST])
    /\ fr_pc' = "run_requested"
    /\ UNCHANGED <<APIFY_API_TOKEN, subreddit_name, sort, limit, status, items,
                   posts, comments_by_post, fr_error, fr_result>>
    /\ UNCHANGED notFetch

\* the POST, raise_for_status, response.json() or run_data["data"]["status"]
\* raises
FetchRunFails ==
    /\ fr_pc = "run_requested"
    /\ \E failure \in FetchFailures : FetchHandle(failure)
    /\ UNCHANGED <<APIFY_API_TOKEN, subreddit_name, sort, limit, fr_requests,
                   status, items, posts, comments_by_post>>
    /\ UNCHANGED notFetch

\* status = run_data["data"]["status"]; if status != "SUCCEEDED": return ...
FetchRunAnswers ==
    /\ fr_pc = "run_requested"
    /\ \E run_status \in RunStatuses :
          /\ status' = run_status
          /\ IF RunSucceeded(run_status)
             THEN fr_result' = fr_result /\ fr_pc' = "run_succeeded"
             ELSE /\ fr_result' =
                       [error |-> <<"Apify run failed with status: ", run_status>>]
                  /\ fr_pc' = "done"
    /\ UNCHANGED <<APIFY_API_TOKEN, subreddit_name, sort, limit, fr_requests,
                   items, posts, comments_by_post, fr_error>>
    /\ UNCHANGED notFetch

\* dataset_id = run_data["data"]["defaultDatasetId"] raises
FetchNoDatasetId ==
    /\ fr_pc = "run_succeeded"
    /\ FetchHandle("missing_key")
    /\ UNCHANGED <<APIFY_API_TOKEN, subreddit_name, sort, limit, fr_requests,
                   status, items, posts, comments_by_post>>
    /\ UNCHANGED notFetch

\* dataset_response = requests.get(dataset_url, headers=headers, timeout=30)
FetchGetDataset ==
    /\ fr_pc = "run_succeeded"
    /\ fr_requests' = Append(fr_requests,
          [method |-> "GET", url |-> "datasets/{dataset_id}/items",
           token |-> APIFY_API_TOKEN])
    /\ fr_pc' = "dataset_requested"
    /\ UNCHANGED <<APIFY_API_TOKEN, subreddit_name, sort, limit, status, items,
                   posts, comments_by_post, fr_error, fr_result>>
    /\ UNCHANGED notFetch

\* the GET, raise_for_status or dataset_response.json() raises, or the items
\* are not what the loop and the sort can work on
FetchDatasetFails ==
    /\ fr_pc = "dataset_requested"
    /\ \E failure \in FetchFailures \ {"missing_key"} : FetchHandle(failure)
    /\ UNCHANGED <<APIFY_API_TOKEN, subreddit_name, sort, limit, fr_requests,
                   status, items, posts, comments_by_post>>
    /\ UNCHANGED notFetch

\* items = dataset_response.json(); the loop over the items, the matching of
\* comments to posts, and return {"posts": results}
FetchDatasetAnswers ==
    /\ fr_pc = "dataset_requested"
    /\ \E dataset \in Datasets :
          LET scanned == Scan(ItemsOf(dataset), subreddit_name)
          IN  /\ items' = ItemsOf(dataset)
              /\ posts' = MatchComments(scanned)
              /\ comments_by_post' = scanned.comments_by_post
    /\ fr_result' = [posts |-> Results(posts', limit)]
    /\ fr_pc' = "done"
    /\ UNCHANGED <<APIFY_API_TOKEN, subreddit_name, sort, limit, fr_requests,
                   status, fr_error>>
    /\ UNCHANGED notFetch

FetchNext ==
    \/ FetchNotConfigured
    \/ FetchStartRun
    \/ FetchRunFails
    \/ FetchRunAnswers
    \/ FetchNoDatasetId
    \/ FetchGetDataset
    \/ FetchDatasetFails
    \/ FetchDatasetAnswers

(***************************************************************************)
(* The routes as processes, one per request in progress: SpecRoutes.       *)
(* describe_image_with_llm, generate_hooks_with_llm and                     *)
(* rephrase_comment_as_hook return a value whatever happens to their call   *)
(* (SpecDescribe, SpecHooks, SpecRephrase); create_video returns or raises  *)
(* (SpecVideo).  uuid4 gives a value it has not given before.               *)
(***************************************************************************)
Requests == 1..MaxRequests

Upload(route, has_image, filename) ==
    [route |-> route, has_image |-> has_image, filename |-> filename,
     has_field |-> FALSE, field |-> <<>>]

Json(route, has_field, field) ==
    [route |-> route, has_image |-> FALSE, filename |-> <<>>,
     has_field |-> has_field, field |-> field]

\* the requests of the model: for each route one that passes its checks and
\* some that fail them
RouteRequests ==
    {Upload("/generate-hooks", FALSE, <<>>),
     Upload("/generate-hooks", TRUE, <<"meme", ".", "txt">>),
     Upload("/generate-hooks", TRUE, <<"meme", ".", "PNG">>),
     Upload("/create-video", FALSE, <<>>),
     Upload("/create-video", TRUE, <<>>),
     Upload("/create-video", TRUE, <<"png">>),
     Upload("/create-video", TRUE, <<"meme", ".", "PNG">>),
     Json("/reddit/rephrase", FALSE, <<>>),
     Json("/reddit/rephrase", TRUE, <<>>),
     Json("/reddit/rephrase", TRUE, <<"c">>),
     Json("/reddit/create-video", FALSE, <<>>),
     Json("/reddit/create-video", TRUE, <<>>),
     Json("/reddit/create-video", TRUE, <<"https://", "i.redd.it", "/a", ".png">>)}

\* the content-type header of a downloaded image
ContentTypes == {<<"image/", "png">>, <<"image/", "jpeg">>, <<>>}

RoutesInit ==
    /\ rq \in [Requests -> RouteRequests]
    /\ rq_pc = [r \in Requests |-> "received"]
    /\ rq_image_path = [r \in Requests |-> None]
    /\ rq_video_path = [r \in Requests |-> None]
    /\ rq_outcome = [r \in Requests |-> ""]
    /\ rq_calls = [r \in Requests |-> <<>>]
    /\ rq_response = [r \in Requests |-> None]
    /\ scratch = {}
    /\ uuids = 0
    \* nothing else is running
    /\ OPENROUTER_API_KEY = "" /\ image_description = "" /\ num_hooks = 0
    /\ gh_posts = <<>> /\ gh_response = None /\ gh_result = <<>>
    /\ gh_pc = "idle"
    /\ image_file = None /\ hook_text = <<>> /\ font_name = "default"
    /\ duration = Rat(0, 1) /\ fps = 1
    /\ image = None /\ total_frames = 0 /\ i = 0 /\ video_frames = <<>>
    /\ calls = <<>> /\ clip = None /\ cv_pc = "idle"
    /\ r_idx = 0 /\ r_frame = None /\ r_prev = None
    /\ image_path = <<>> /\ di_file = None /\ di_posts = <<>>
    /\ di_response = None /\ di_error = "" /\ di_result = <<>>
    /\ di_pc = "idle"
    /\ comment_text = <<>> /\ post_title = <<>> /\ rc_posts = <<>>
    /\ rc_response = None /\ rc_error = "" /\ rc_result = <<>>
    /\ rc_pc = "idle"
    /\ APIFY_API_TOKEN = "" /\ subreddit_name = "" /\ sort = "" /\ limit = 0
    /\ fr_requests = <<>> /\ status = "" /\ items = None /\ posts = <<>>
    /\ comments_by_post = <<>> /\ fr_error = "" /\ fr_result = None
    /\ fr_pc = "idle"
    /\ w_text = <<>> /\ w_font = "default" /\ w_max_width = 0
    /\ words = <<>> /\ word_idx = 0 /\ current_line = <<>> /\ lines = <<>>
    /\ w_pc = "idle"

\* return jsonify({'error': ...}), 400
Reject(r) ==
    /\ rq_pc[r] = "received"
    /\ ValidationError(rq[r]) # ""
    /\ rq_response' = [rq_response EXCEPT
                          ![r] = ErrorResponse(400, ValidationError(rq[r]))]
    /\ rq_pc' = [rq_pc EXCEPT ![r] = "done"]
    /\ UNCHANGED <<rq, rq_image_path, rq_video_path, rq_outcome, rq_calls,
                   scratch, uuids>>
    /\ UNCHANGED notRoutes

\* filename = secure_filename(f"{uuid.uuid4()}_{file.filename}"); file.save(...)
SaveUpload(r) ==
    /\ rq_pc[r] = "received"
    /\ rq[r].route \in {"/generate-hooks", "/create-video"}
    /\ ValidationError(rq[r]) = ""
    /\ uuids' = uuids + 1
    /\ rq_image_path' = [rq_image_path EXCEPT
                            ![r] = UploadPath(uuids', rq[r].filename)]
    /\ scratch' = WriteFile(scratch, rq_image_path'[r], r)
    /\ rq_pc' = [rq_pc EXCEPT ![r] = "saved"]
    /\ UNCHANGED <<rq, rq_video_path, rq_outcome, rq_calls, rq_response>>
    /\ UNCHANGED notRoutes

\* /generate-hooks: description = describe_image_with_llm(filepath);
\* hooks = generate_hooks_with_llm(description); return jsonify({...})
DescribeAndGenerate(r) ==
    /\ rq_pc[r] = "saved"
    /\ rq[r].route = "/generate-hooks"
    /\ rq_calls' = [rq_calls EXCEPT
                       ![r] = @ \o <<"describe_image_with_llm",
                                     "generate_hooks_with_llm">>]
    /\ rq_response' = [rq_response EXCEPT
                          ![r] = [status |-> 200,
                                  body |-> [hooks |-> "hooks",
                                            description |-> "description"]]]
    /\ rq_pc' = [rq_pc EXCEPT ![r] = "done"]
    /\ UNCHANGED <<rq, rq_image_path, rq_video_path, rq_outcome, scratch, uuids>>
    /\ UNCHANGED notRoutes

\* /reddit/rephrase: hook = rephrase_comment_as_hook(comment, title)
RephraseRoute(r) ==
    /\ rq_pc[r] = "received"
    /\ rq[r].route = "/reddit/rephrase"
    /\ ValidationError(rq[r]) = ""
    /\ rq_calls' = [rq_calls EXCEPT ![r] = Append(@, "rephrase_comment_as_hook")]
    /\ rq_response' = [rq_response EXCEPT
                          ![r] = [status |-> 200, body |-> [hook |-> "hook"]]]
    /\ rq_pc' = [rq_pc EXCEPT ![r] = "done"]
    /\ UNCHANGED <<rq, rq_image_path, rq_video_path, rq_outcome, scratch, uuids>>
    /\ UNCHANGED notRoutes

\* download_reddit_image: response = requests.get(image_url, ..., timeout=30)
DownloadGet(r) ==
    /\ rq_pc[r] = "received"
    /\ rq[r].route = "/reddit/create-video"
    /\ ValidationError(rq[r]) = ""
    /\ rq_calls' = [rq_calls EXCEPT ![r] = Append(@, "GET image_url")]
    /\ rq_pc' = [rq_pc EXCEPT ![r] = "downloading"]
    /\ UNCHANGED <<rq, rq_image_path, rq_video_path, rq_outcome, rq_response,
                   scratch, uuids>>
    /\ UNCHANGED notRoutes

\* download_reddit_image: requests.get or raise_for_status raises; except
\* Exception: return None; the route answers 500
DownloadFails(r) ==
    /\ rq_pc[r] = "downloading"
    /\ rq_response' = [rq_response EXCEPT
                          ![r] = ErrorResponse(500, "Failed to download image")]
    /\ rq_pc' = [rq_pc EXCEPT ![r] = "done"]
    /\ UNCHANGED <<rq, rq_image_path, rq_video_path, rq_outcome, rq_calls,
                   scratch, uuids>>
    /\ UNCHANGED notRoutes

\* download_reddit_image: open(filepath, 'wb') has made the file and
\* f.write raises; except Exception: return None; the route answers 500
DownloadWriteFails(r) ==
    /\ rq_pc[r] = "downloading"
    /\ uuids' = uuids + 1
    /\ \E content_type \in ContentTypes :
          scratch' = WriteFile(scratch, DownloadPath(uuids', content_type), r)
    /\ rq_response' = [rq_response EXCEPT
                          ![r] = ErrorResponse(500, "Failed to download image")]
    /\ rq_pc' = [rq_pc EXCEPT ![r] = "done"]
    /\ UNCHANGED <<rq, rq_image_path, rq_video_path, rq_outcome, rq_calls>>
    /\ UNCHANGED notRoutes

\* download_reddit_image: the image is written and its path returned
DownloadSaves(r) ==
    /\ rq_pc[r] = "downloading"
    /\ uuids' = uuids + 1
    /\ \E content_type \in ContentTypes :
          rq_image_path' = [rq_image_path EXCEPT
                               ![r] = DownloadPath(uuids', content_type)]
    /\ scratch' = WriteFile(scratch, rq_image_path'[r], r)
    /\ rq_pc' = [rq_pc EXCEPT ![r] = "saved"]
    /\ UNCHANGED <<rq, rq_video_path, rq_outcome, rq_calls, rq_response>>
    /\ UNCHANGED notRoutes

\* video_path = ...; create_video(image_path, hook_text, video_path) returns;
\* return send_file(video_path, ...)
CreateVideoReturns(r) ==
    /\ rq_pc[r] = "saved"
    /\ rq[r].route \in {"/create-video", "/reddit/create-video"}
    /\ uuids' = uuids + 1
    /\ rq_video_path' = [rq_video_path EXCEPT ![r] = VideoPath(uuids')]
    /\ scratch' = WriteFile(scratch, rq_video_path'[r], r)
    /\ rq_outcome' = [rq_outcome EXCEPT ![r] = "ok"]
    /\ rq_response' = [rq_response EXCEPT
                          ![r] = [status |-> 200,
                                  body |-> [file |-> rq_video_path'[r]]]]
    /\ rq_pc' = [rq_pc EXCEPT ![r] = "finally"]
    /\ UNCHANGED <<rq, rq_image_path, rq_calls>>
    /\ UNCHANGED notRoutes

\* create_video raises at Image.open; except Exception: return
\* jsonify({'error': str(e)}), 500
CreateVideoDecodeFails(r) ==
    /\ rq_pc[r] = "saved"
    /\ rq[r].route \in {"/create-video", "/reddit/create-video"}
    /\ uuids' = uuids + 1
    /\ rq_video_path' = [rq_video_path EXCEPT ![r] = VideoPath(uuids')]
    /\ rq_outcome' = [rq_outcome EXCEPT ![r] = "decode_error"]
    /\ rq_response' = [rq_response EXCEPT
                          ![r] = ErrorResponse(500, "cannot identify image file")]
    /\ rq_pc' = [rq_pc EXCEPT ![r] = "finally"]
    /\ UNCHANGED <<rq, rq_image_path, rq_calls, scratch>>
    /\ UNCHANGED notRoutes

\* create_video raises at clip.write_videofile, which may have begun the
\* file; except Exception: return jsonify({'error': str(e)}), 500
CreateVideoEncoderFails(r) ==
    /\ rq_pc[r] = "saved"
    /\ rq[r].route \in {"/create-video", "/reddit/create-video"}
    /\ uuids' = uuids + 1
    /\ rq_video_path' = [rq_video_path EXCEPT ![r] = VideoPath(uuids')]
    /\ \E begun \in BOOLEAN :
          scratch' = IF begun THEN WriteFile(scratch, rq_video_path'[r], r)
                     ELSE scratch
    /\ rq_outcome' = [rq_outcome EXCEPT ![r] = "encoder_error"]
    /\ rq_response' = [rq_response EXCEPT
                          ![r] = ErrorResponse(500, "encoder failed")]
    /\ rq_pc' = [rq_pc EXCEPT ![r] = "finally"]
    /\ UNCHANGED <<rq, rq_image_path, rq_calls>>
    /\ UNCHANGED notRoutes

\* finally: if os.path.exists(image_path): os.remove(image_path)
Cleanup(r) ==
    /\ rq_pc[r] = "finally"
    /\ scratch' = RemoveIfExists(scratch, rq_image_path[r])
    /\ rq_pc' = [rq_pc EXCEPT ![r] = "done"]
    /\ UNCHANGED <<rq, rq_image_path, rq_video_path, rq_outcome, rq_calls,
                   rq_response, uuids>>
    /\ UNCHANGED notRoutes

RoutesNext ==
    \/ \E r \in DOMAIN rq : Reject(r)
    \/ \E r \in DOMAIN rq : SaveUpload(r)
    \/ \E r \in DOMAIN rq : DescribeAndGenerate(r)
    \/ \E r \in DOMAIN rq : RephraseRoute(r)
    \/ \E r \in DOMAIN rq : DownloadGet(r)
    \/ \E r \in DOMAIN rq : DownloadFails(r)
    \/ \E r \in DOMAIN rq : DownloadWriteFails(r)
    \/ \E r \in DOMAIN rq : DownloadSaves(r)
    \/ \E r \in DOMAIN rq : CreateVideoReturns(r)
    \/ \E r \in DOMAIN rq : CreateVideoDecodeFails(r)
    \/ \E r \in DOMAIN rq : CreateVideoEncoderFails(r)
    \/ \E r \in DOMAIN rq : Cleanup(r)

(***************************************************************************)
(* Specifications.                                                         *)
(***************************************************************************)
SpecWrap == WrapInit /\ [][WrapNext]_vars

SpecVideo == VideoInit /\ [][VideoNext]_vars

SpecHookVideo == HookVideoInit /\ [][HookVideoNext]_vars

SpecRender == RenderInit /\ [][RenderNext]_vars

SpecHooks == HooksInit /\ [][HooksNext]_vars

SpecDescribe == DescribeInit /\ [][DescribeNext]_vars

SpecRephrase == RephraseInit /\ [][RephraseNext]_vars

SpecFetch == FetchInit /\ [][FetchNext]_vars

SpecRoutes == RoutesInit /\ [][RoutesNext]_vars

\* every function that talks to an external service, one invocation of one
\* of them (or, for download_reddit_image, of the route that calls it)
CallsInit ==
    \/ HooksInit
    \/ DescribeInit
    \/ RephraseInit
    \/ FetchInit
    \/ RoutesInit

CallsNext ==
    \/ HooksNext
    \/ DescribeNext
    \/ RephraseNext
    \/ FetchNext
    \/ RoutesNext

SpecCalls == CallsInit /\ [][CallsNext]_vars

(***************************************************************************)
(* Properties.                                                             *)
(***************************************************************************)
\* the frame index the k-th frame of the video was built for
FrameIdx(k) == calls[k]

HasImage(frame) == \E l \in 1..Len(frame.layers) : frame.layers[l].kind = "image"

ImageLayer(frame) == frame.layers[3]

PanelLayer(frame) == frame.layers[2]

\* C1 (SpecWrap): every line wrap_text has committed measures at most
\* max_width in the font it was wrapped for, unless the line is a single
\* word of the input, kept whole, that is itself wider than max_width.
C1_LinesFitOrSingleWideWord ==
    \A k \in 1..Len(lines) :
        \/ Measure(lines[k], get_font(w_font)) <= w_max_width
        \/ /\ Measure(lines[k], get_font(w_font)) > w_max_width
           /\ \A c \in 1..Len(lines[k]) : lines[k][c] \notin Whitespace
           /\ \E j \in 1..Len(words) : words[j] = lines[k]

\* C1 witness: wrap_text has returned a line of two words that fits and a
\* line that is one word wider than max_width.
C1_Witness ==
    /\ w_pc = "done"
    /\ \E k \in 1..Len(lines) : Measure(lines[k], get_font(w_font)) > w_max_width
    /\ \E k \in 1..Len(lines) : Len(Split(lines[k])) >= 2

\* C2 (SpecVideo): a frame built for a time frame_idx / fps < 2.0 s (at 24
\* fps: the frames 0..47) has no image layer: it is the background with the
\* caption panel pasted on it and nothing else.
C2_NoImageBeforeTwoSeconds ==
    \A k \in 1..Len(video_frames) :
        (FrameIdx(k) < 2 * fps \/ (fps = 24 /\ FrameIdx(k) \in 0..47))
        => /\ ~HasImage(video_frames[k])
           /\ Len(video_frames[k].layers) = 2
           /\ video_frames[k].layers[1].kind = "background"
           /\ video_frames[k].layers[2].kind = "white_box"

\* C2 witness: a finished 24 fps video in which the frames 0..47 and later
\* ones were built.
C2_Witness ==
    /\ cv_pc = "returned" /\ fps = 24 /\ Len(video_frames) > 48
    /\ HasImage(video_frames[Len(video_frames)])

\* C3 (SpecVideo): a frame built for a time frame_idx / fps >= 5.0 s has the
\* image pasted with fade progress exactly 1 and its alpha unchanged.
C3_FullOpacityFromFiveSeconds ==
    \A k \in 1..Len(video_frames) :
        FrameIdx(k) >= 5 * fps
        => /\ HasImage(video_frames[k])
           /\ RatEq(ImageLayer(video_frames[k]).fade_progress, Rat(1, 1))
           /\ ImageLayer(video_frames[k]).alpha = image_file.alpha

\* C3 witness: frames at exactly 5.0 s and later than 5.0 s have been built
\* from an image that is not fully opaque.
C3_Witness ==
    /\ \E k \in 1..Len(video_frames) : FrameIdx(k) = 5 * fps
    /\ \E k \in 1..Len(video_frames) : FrameIdx(k) > 5 * fps
    /\ image_file.alpha = 128

\* clamp((frame_idx / fps - 2.0) / 3.0, 0, 1) as a rational
ClampedFade(frame_idx, rate) ==
    LET n == frame_idx - 2 * rate
        d == 3 * rate
    IN IF n <= 0 THEN Rat(0, 1) ELSE IF n >= d THEN Rat(1, 1) ELSE Rat(n, d)

\* C4 (SpecVideo): for the frames built for a time >= 2.0 s the fade progress
\* is clamp((current_time - 2.0) / 3.0, 0, 1), lies in [0, 1], and the fade
\* progress of the newest frame is at least that of every earlier frame.
C4_FadeMonotoneInUnitInterval ==
    LET n == Len(video_frames) IN
    \A k \in 1..n :
        FrameIdx(k) >= 2 * fps
        => LET fp == video_frames[k].fade_progress IN
           /\ fp # None
           /\ RatLE(Rat(0, 1), fp) /\ RatLE(fp, Rat(1, 1))
           /\ RatEq(fp, ClampedFade(FrameIdx(k), fps))
           /\ FrameIdx(k) <= FrameIdx(n)
              => RatLE(fp, video_frames[n].fade_progress)

\* C4 witness: the video holds a frame at 2.0 s, a frame inside the fade and
\* a frame after it.
C4_Witness ==
    /\ \E k \in 1..Len(video_frames) :
          /\ video_frames[k].fade_progress # None
          /\ RatEq(video_frames[k].fade_progress, Rat(0, 1))
    /\ \E k \in 1..Len(video_frames) :
          /\ video_frames[k].fade_progress # None
          /\ RatLT(Rat(0, 1), video_frames[k].fade_progress)
          /\ RatLT(video_frames[k].fade_progress, Rat(1, 1))
    /\ \E k \in 1..Len(video_frames) : FrameIdx(k) > 5 * fps

\* C5 (SpecVideo): build_frame is called once for each index 0, 1, 2, ... in
\* increasing order and its frames are appended in that order; the encoder
\* is given the sequence only after floor(duration * fps) calls, and is
\* given exactly those frames: 120 of them for duration = 5, fps = 24.
C5_FramesInOrderThenEncoder ==
    /\ Len(video_frames) = Len(calls)
    /\ \A k \in 1..Len(calls) :
          /\ calls[k] = k - 1
          /\ video_frames[k].current_time = Rat(k - 1, fps)
    /\ clip # None
       => LET n == Len(clip.frames) IN
          /\ clip.frames = video_frames
          /\ n = Len(calls)
          /\ n * duration.den <= duration.num * fps
          /\ duration.num * fps < (n + 1) * duration.den
          /\ (RatEq(duration, Rat(5, 1)) /\ fps = 24) => n = 120

\* C5 witness: the encoder has returned for the default duration and frame
\* rate, having been given 120 frames.
C5_Witness ==
    /\ cv_pc = "returned"
    /\ RatEq(duration, Rat(DEFAULT_DURATION, 1)) /\ fps = DEFAULT_FPS
    /\ Len(clip.frames) = 120

C7_PanelHeightFromLines ==
    r_frame # None
    => LET numLines == Len(wrap_text(hook_text, get_font(font_name), 1080 - 100))
       IN /\ PanelLayer(r_frame).kind = "white_box"
          /\ PanelLayer(r_frame).size[2] = 230 + numLines * 54 + 2 * 30
          /\ Len(PanelLayer(r_frame).text) = numLines
          /\ top_padding = 230

\* C7 witness: a call for a hook text of three lines follows a call for a
\* hook text with a different number of lines.
C7_Witness ==
    /\ r_prev # None
    /\ Len(PanelLayer(r_frame).text) = 3
    /\ Len(PanelLayer(r_prev.frame).text) # 3

\* C8 (SpecRender): the pasted image is 1080 wide and is placed at x = 0,
\* y = panelHeight + floor((1920 - panelHeight - scaledHeight) / 2); no
\* clamping: when scaledHeight > 1920 - panelHeight, y is above the panel's
\* lower edge.
C8_ImagePlacementUnclamped ==
    (r_frame # None /\ HasImage(r_frame))
    => LET panelHeight == PanelLayer(r_frame).size[2]
           scaledHeight == ImageLayer(r_frame).size[2]
           y == ImageLayer(r_frame).at[2]
           rest == 1920 - panelHeight - scaledHeight
       IN /\ ImageLayer(r_frame).size[1] = 1080
          /\ ImageLayer(r_frame).at[1] = 0
          /\ 2 * (y - panelHeight) <= rest
          /\ rest < 2 * (y - panelHeight) + 2
          /\ scaledHeight > 1920 - panelHeight => y < panelHeight

\* C8 witness: an image pasted at a negative y, with an odd number of
\* pixels left over.
C8_Witness ==
    /\ r_frame # None /\ HasImage(r_frame)
    /\ ImageLayer(r_frame).at[2] < 0
    /\ (1920 - PanelLayer(r_frame).size[2] - ImageLayer(r_frame).size[2]) % 2 = 1

IsBlank(s) == \A c \in 1..Len(s) : s[c] \in Whitespace

\* the lines of a text: the maximal pieces without a line feed
TextLines(s) ==
    LET breaks == <<0>> \o SelectSeq([c \in 1..Len(s) |-> IF s[c] = "\n" THEN c ELSE 0],
                                     LAMBDA c : c # 0) \o <<Len(s) + 1>>
    IN [k \in 1..(Len(breaks) - 1) |-> SubSeq(s, breaks[k] + 1, breaks[k + 1] - 1)]

\* C9 (SpecHooks): with no key configured, no request is ever posted and the
\* call returns a list of exactly one string, the placeholder, whatever the
\* description and the count.
C9_NoKeyPlaceholderNoRequest ==
    OPENROUTER_API_KEY = ""
    => /\ gh_posts = <<>>
       /\ gh_pc # "posted"
       /\ gh_pc = "done"
          => /\ Len(gh_result) = 1
             /\ gh_result[1] = <<"Add your hook text here...">>

\* C9 witness: the call has returned without a key, for a count other than 1.
C9_Witness ==
    /\ OPENROUTER_API_KEY = "" /\ gh_pc = "done"
    /\ num_hooks = 0
    /\ image_description = "a cat"

\* C10 (SpecHooks): after a successful gateway call the result is the list
\* of the non-blank lines of the response text, each without its leading and
\* trailing whitespace, in response order, cut to its first num_hooks
\* entries: no entry is empty or blank, and there are at most num_hooks.
C10_NonBlankTrimmedLinesUpToCount ==
    (gh_pc = "done" /\ gh_response # None /\ gh_response.ok)
    => LET all == TextLines(gh_response.content)
           kept == SelectSeq(all, LAMBDA l : ~IsBlank(l))
       IN /\ Len(gh_result) <= num_hooks
          /\ Len(gh_result) = IF Len(kept) < num_hooks THEN Len(kept) ELSE num_hooks
          /\ \A k \in 1..Len(gh_result) :
                /\ gh_result[k] # <<>>
                /\ ~IsBlank(gh_result[k])
                /\ gh_result[k][1] \notin Whitespace
                /\ gh_result[k][Len(gh_result[k])] \notin Whitespace
                /\ \E a, b \in 0..Len(kept[k]) :
                      /\ kept[k] = [c \in 1..a |-> " "] \o gh_result[k]
                                       \o [c \in 1..b |-> " "]

\* C10 witness: a response with a blank line and padded lines, more of them
\* than the count, has been parsed.
C10_Witness ==
    /\ gh_pc = "done" /\ gh_response # None /\ gh_response.ok
    /\ gh_response.content = <<" ", "a", "\n", "\n", "a">>
    /\ num_hooks = 1
    /\ gh_result = << <<"a">> >>

\* C11 (SpecHooks): with a key configured, a gateway call that fails
\* (transport error, timeout, non-2xx status, malformed body) never makes
\* generate_hooks_with_llm raise: it returns the same three fixed hooks,
\* whatever the count asked for.
C11_FailureGivesThreeFallbackHooks ==
    /\ gh_pc # "raised"
    /\ (gh_response # None /\ ~gh_response.ok)
       => /\ OPENROUTER_API_KEY # ""
          /\ gh_pc = "done"
          /\ gh_result = << <<"When this hits different...">>,
                            <<"POV: You finally get it...">>,
                            <<"This is your sign...">> >>
          /\ Len(gh_result) = 3

\* C11 witness: a malformed body was answered to a call asking for no hooks.
C11_Witness ==
    /\ gh_pc = "done" /\ gh_response # None /\ ~gh_response.ok
    /\ gh_response.content = <<"malformed">>
    /\ num_hooks = 0

\* C12 (SpecDescribe): describe_image_with_llm never raises: whenever its
\* try block fails (unreadable file, transport error, timeout, non-2xx
\* status, malformed response) it returns the fixed generic description.
C12_FailureGivesFallbackDescription ==
    /\ di_pc # "raised"
    /\ di_error # ""
       => /\ di_pc = "done"
          /\ di_result = <<"an interesting meme or image">>

\* C12 witness: the image file could not be read, and nothing was posted.
C12_Witness ==
    /\ di_pc = "done" /\ di_error = "unreadable" /\ di_posts = <<>>
    /\ OPENROUTER_API_KEY # ""

\* whitespace only
IsPad(text) == \A k \in 1..Len(text) : text[k] \in Whitespace

\* text is content without the whitespace at its two ends, and nothing else
\* removed
TrimOf(text, content) ==
    /\ \E a \in 0..Len(content) : \E b \in a..Len(content) :
          /\ text = SubSeq(content, a + 1, b)
          /\ IsPad(SubSeq(content, 1, a))
          /\ IsPad(SubSeq(content, b + 1, Len(content)))
    /\ text # <<>> => text[1] \notin Whitespace /\ text[Len(text)] \notin Whitespace

\* C13 (SpecRephrase): rephrase_comment_as_hook never raises; after a failed
\* gateway call it returns the comment text it was given, unchanged; after
\* a successful one it returns the model's answer with only the whitespace at
\* its two ends removed, however long the answer is.
C13_CommentOnFailureTrimmedReplyOnSuccess ==
    /\ rc_pc # "raised"
    /\ rc_error # "" => rc_pc = "done" /\ rc_result = comment_text
    /\ (rc_pc = "done" /\ rc_response # None)
       => TrimOf(rc_result, rc_response.content)

\* C13 witness: an answer longer than the 50 characters asked for, padded with
\* whitespace, came back whole but for the padding.
C13_Witness ==
    /\ rc_pc = "done" /\ rc_response # None
    /\ Len(rc_result) > HOOK_MAX_CHARS
    /\ Len(rc_response.content) > Len(rc_result)

\* C14 (SpecFetch): without a token fetch_reddit_posts returns the 'not
\* configured' error at once, and sends nothing to the gateway, whatever the
\* subreddit, the sort and the limit.
C14_NoTokenNotConfiguredNoRequest ==
    APIFY_API_TOKEN = ""
        => /\ fr_requests = <<>>
           /\ fr_pc \in {"start", "done"}
           /\ fr_pc = "done" =>
                fr_result = [error |-> <<"Apify API not configured. Set APIFY_API_TOKEN in .env">>]

\* C14 witness: a call with a negative limit returned without a token.
C14_Witness ==
    /\ APIFY_API_TOKEN = "" /\ fr_pc = "done" /\ limit < 0 /\ sort = "new"

\* C15 (SpecFetch): when the run ends with a status other than SUCCEEDED,
\* fetch_reddit_posts returns an error that names that status, returns no
\* posts, and does not ask for the result set.
C15_RunNotSucceededErrorNamesStatus ==
    (status # "" /\ status # "SUCCEEDED")
        => /\ fr_pc = "done"
           /\ fr_result = [error |-> <<"Apify run failed with status: ", status>>]
           /\ "posts" \notin DOMAIN fr_result
           /\ Len(fr_requests) = 1 /\ fr_requests[1].method = "POST"
           /\ items = None

\* C15 witness: the run was still RUNNING when the gateway stopped waiting.
C15_Witness ==
    /\ fr_pc = "done" /\ status = "RUNNING"

\* C16 (SpecFetch): fetch_reddit_posts never lets an exception out: a
\* transport error, a timeout, a non-2xx status or a malformed response, to
\* the request that starts the run or to the one that reads the result set,
\* gives a return value with the key error and no key posts.
C16_FailureGivesErrorValue ==
    /\ fr_pc # "raised"
    /\ fr_error # ""
       => /\ fr_pc = "done"
          /\ DOMAIN fr_result = {"error"}
          /\ Len(fr_requests) \in {1, 2}

\* C16 witness: the result set came back with items of the wrong type.
C16_Witness ==
    /\ fr_pc = "done" /\ fr_error = "wrong_type" /\ Len(fr_requests) = 2

\* the call came back with posts
Succeeded == fr_pc = "done" /\ "posts" \in DOMAIN fr_result

IsPostItem(item) == "dataType" \in DOMAIN item /\ item.dataType = "post"

IsCommentItem(item) == "dataType" \in DOMAIN item /\ item.dataType = "comment"

\* a non-empty imageUrls list, or a link on the image host or with an image
\* extension
HasResolvableImage(item) ==
    \/ "imageUrls" \in DOMAIN item /\ Len(item.imageUrls) > 0
    \/ /\ "link" \in DOMAIN item
       /\ \/ \E k \in 1..Len(item.link) : item.link[k] = "i.redd.it"
          \/ /\ Len(item.link) > 0
             /\ item.link[Len(item.link)]
                    \in {".jpg", ".jpeg", ".png", ".gif", ".webp"}

\* the posts of the result set that have an image, told apart by their id
ImagePostIds ==
    {items[k].id : k \in {n \in 1..Len(items) :
                            IsPostItem(items[n]) /\ HasResolvableImage(items[n])}}

\* C17 (SpecFetch): a post is returned only if its item has a resolvable
\* image URL (a non-empty imageUrls list, or a link on the image host or
\* ending in an image extension); a post without one is never returned; and
\* with a limit that does not cut them, the posts returned are as many as the
\* posts of the result set that have an image (3 of 5 give 3), a post being
\* told from another by its id.
C17_OnlyImagePostsAllOfThem ==
    Succeeded
        => /\ \A j \in 1..Len(fr_result.posts) :
                \E k \in 1..Len(items) :
                    /\ IsPostItem(items[k])
                    /\ HasResolvableImage(items[k])
                    /\ items[k].id = posts[j].key
                    /\ items[k].title = fr_result.posts[j].title
                    /\ fr_result.posts[j].image_url # <<>>
           /\ limit >= Cardinality(ImagePostIds)
                => Len(fr_result.posts) = Cardinality(ImagePostIds)

\* C17 witness: five posts, three of them with an image, and three returned.
C17_Witness ==
    /\ Succeeded
    /\ Len(items) = 5 /\ \A k \in 1..5 : IsPostItem(items[k])
    /\ Cardinality({k \in 1..5 : HasResolvableImage(items[k])}) = 3
    /\ Cardinality({items[k].id : k \in 1..5}) = 5
    /\ limit >= 3
    /\ Len(fr_result.posts) = 3

\* the comment items of the result set on the post with this id whose body is
\* of a length that is kept
KeptCommentsOn(post_id) ==
    {k \in 1..Len(items) :
        /\ IsCommentItem(items[k])
        /\ items[k].postId = post_id
        /\ Len(items[k].body) > 10 /\ Len(items[k].body) < 300}

\* C18 (SpecFetch): every entry of a returned post's top_comments is a
\* comment item of the result set whose postId is the id of that post's
\* item and whose body is longer than 10 and shorter than 300; there are at
\* most 3 entries, in non-increasing order of score; so a comment on a post
\* that is not retained is in no post's top_comments.
C18_TopCommentsFromOwnKeptComments ==
    Succeeded
        => \A j \in 1..Len(fr_result.posts) :
              LET top == fr_result.posts[j].top_comments
              IN  /\ fr_result.posts[j] = posts[j].value
                  /\ Len(top) <= 3
                  /\ \A m \in 1..Len(top) :
                        \E k \in KeptCommentsOn(posts[j].key) :
                            /\ top[m].text = items[k].body
                            /\ top[m].score = items[k].upVotes
                  /\ \A m \in 1..(Len(top) - 1) : top[m].score >= top[m + 1].score

\* C18 witness: a post returned with three top comments, from a result set
\* that also holds a comment on it with a body of a length that is not kept.
C18_Witness ==
    /\ Succeeded
    /\ \E j \in 1..Len(fr_result.posts) :
          /\ Len(fr_result.posts[j].top_comments) = 3
          /\ \E k \in 1..Len(items) :
                /\ IsCommentItem(items[k])
                /\ items[k].postId = posts[j].key
                /\ Len(items[k].body) \in {10, 300}

\* how many of these scores are at least v
AtLeast(scores, v) == Cardinality({m \in DOMAIN scores : scores[m] >= v})

\* C19 (SpecFetch): the top_comments of every returned post are the top 3 by
\* score of all the comment items on that post with a body of a kept length,
\* wherever the post item and the comment items stand in the result set.
C19_TopThreeOfAllKeptComments ==
    Succeeded
        => \A j \in 1..Len(fr_result.posts) :
              LET top == fr_result.posts[j].top_comments
                  kept == KeptCommentsOn(posts[j].key)
              IN  \A v \in 0..9 :
                     AtLeast([m \in 1..Len(top) |-> top[m].score], v)
                        = IF AtLeast([k \in kept |-> items[k].upVotes], v) < 3
                          THEN AtLeast([k \in kept |-> items[k].upVotes], v)
                          ELSE 3

\* C20 (SpecFetch): a call that succeeds returns at most limit posts, for
\* every limit, zero and negative ones included, and for the limits that GET
\* /reddit/posts passes on.
C20_AtMostLimitPosts ==
    Succeeded => Len(fr_result.posts) <= limit

\* the scratch files a request wrote that are still there
FilesOf(r) == {f \in scratch : f.by = r}

\* C21 (SpecRoutes): when a request to /generate-hooks, /create-video or
\* /reddit/create-video has completed, with success or with failure, every
\* scratch file it created (the source image, the rendered video) is gone
\* from the scratch directory.
C21_NoScratchFileOutlivesItsRequest ==
    \A r \in DOMAIN rq_pc : rq_pc[r] = "done" => FilesOf(r) = {}

\* the file name ends in a dot and one of the accepted extensions, in
\* either case
HasAcceptedExtension(filename) ==
    /\ Len(filename) >= 2
    /\ filename[Len(filename) - 1] = "."
    /\ filename[Len(filename)] \in
           {"png", "jpg", "jpeg", "gif", "webp", "PNG", "JPG", "JPEG", "GIF", "WEBP"}

\* the request fails the validation of its route
FailsValidation(req) ==
    IF req.route \in {"/generate-hooks", "/create-video"}
    THEN ~req.has_image \/ ~HasAcceptedExtension(req.filename)
    ELSE ~req.has_field \/ req.field = <<>>

\* C22 (SpecRoutes): a request that fails validation (no image part, a file
\* name without an accepted extension, a missing or empty comment or
\* image_url) is answered 400 with a JSON error and nothing else happens: no
\* scratch file is written, no uuid is drawn, no external call is made; and
\* only such requests are answered 400.
C22_InvalidRequestGets400AndChangesNothing ==
    [][\A r \in DOMAIN rq_pc :
          /\ (rq_pc[r] = "received" /\ rq_pc'[r] # "received"
                  /\ FailsValidation(rq[r]))
             => /\ rq_pc'[r] = "done"
                /\ rq_response'[r] # None
                /\ rq_response'[r].status = 400
                /\ DOMAIN rq_response'[r].body = {"error"}
                /\ scratch' = scratch
                /\ rq_calls' = rq_calls
                /\ uuids' = uuids
                /\ rq_image_path' = rq_image_path
                /\ rq_video_path' = rq_video_path
          /\ (rq_response[r] = None /\ rq_response'[r] # None
                  /\ rq_response'[r].status = 400)
             => FailsValidation(rq[r])]_vars

\* C22 witness: an upload named meme.txt was refused while the scratch
\* directory held the file of another request.
C22_Witness ==
    \E r \in DOMAIN rq_pc :
        /\ rq_pc[r] = "done"
        /\ rq[r].filename = <<"meme", ".", "txt">>
        /\ rq_response[r].status = 400
        /\ rq_calls[r] = <<>>
        /\ scratch # {} /\ FilesOf(r) = {}

\* C23 (SpecRoutes): when create_video fails in /create-video or
\* /reddit/create-video (the image cannot be decoded, the encoder fails),
\* the response is 500 with a JSON error, and when the request ends the
\* scratch file of its source image is gone.
C23_CreateVideoFailureGives500AndRemovesImage ==
    \A r \in DOMAIN rq_pc :
        rq_outcome[r] \in {"decode_error", "encoder_error"}
            => /\ rq_pc[r] \in {"finally", "done"}
               /\ rq_response[r].status = 500
               /\ DOMAIN rq_response[r].body = {"error"}
               /\ rq_pc[r] = "done"
                    => \A f \in scratch : f.path # rq_image_path[r]

\* C23 witness: the encoder failed on a downloaded image and the request
\* has ended.
C23_Witness ==
    \E r \in DOMAIN rq_pc :
        /\ rq[r].route = "/reddit/create-video"
        /\ rq_outcome[r] = "encoder_error"
        /\ rq_pc[r] = "done"

\* the requests of one kind in a log of requests
RequestsOf(log, method) == {k \in 1..Len(log) : log[k].method = method}

DownloadsOf(r) == {k \in 1..Len(rq_calls[r]) : rq_calls[r][k] = "GET image_url"}

\* C24: no external call is retried.  One invocation of
\* describe_image_with_llm, generate_hooks_with_llm, rephrase_comment_as_hook
\* or download_reddit_image issues at most one HTTP request, one invocation of
\* fetch_reddit_posts at most one job-submission request and at most one
\* result-set request; and once a request has failed the invocation is over,
\* with the requests it had issued by then.
C24_NoExternalCallIsRetried ==
    /\ Len(di_posts) <= 1
    /\ Len(gh_posts) <= 1
    /\ Len(rc_posts) <= 1
    /\ Cardinality(RequestsOf(fr_requests, "POST")) <= 1
    /\ Cardinality(RequestsOf(fr_requests, "GET")) <= 1
    /\ \A r \in DOMAIN rq_calls : Cardinality(DownloadsOf(r)) <= 1
    /\ di_error # "" => di_pc \in {"done", "raised"}
    /\ (gh_response # None /\ ~gh_response.ok) => gh_pc \in {"done", "raised"}
    /\ rc_error # "" => rc_pc \in {"done", "raised"}
    /\ fr_error # "" => fr_pc \in {"done", "raised"}
    /\ \A r \in DOMAIN rq_response :
          (/\ rq_response[r] # None
           /\ rq_response[r] = ErrorResponse(500, "Failed to download image"))
          => rq_pc[r] = "done"

\* the result-set request of fetch_reddit_posts timed out: the function has
\* returned its error with one request of each kind issued
C24_Witness ==
    /\ fr_pc = "done"
    /\ fr_error = "timeout"
    /\ Cardinality(RequestsOf(fr_requests, "POST")) = 1
    /\ Cardinality(RequestsOf(fr_requests, "GET")) = 1

\* the scratch paths a request has chosen so far
PathsOf(r) == {rq_image_path[r], rq_video_path[r]} \ {None}

\* C25 (SpecRoutes): under any interleaving of the requests, no two requests
\* use the same scratch path, and a scratch file is overwritten or deleted
\* only by a step of the request that wrote it: never by the save, the
\* download, the encoder or the cleanup of another request.
C25_RequestsNeverShareAScratchPath ==
    [][/\ \A r1, r2 \in DOMAIN rq_pc :
             r1 # r2 => PathsOf(r1)' \cap PathsOf(r2)' = {}
       /\ \A f \in scratch :
             f \notin scratch' => rq_pc'[f.by] # rq_pc[f.by]]_vars

\* two uploads with the same file name: the first request has answered and
\* cleaned up, the image of the second, still in progress, is in place
C25_Witness ==
    /\ {1, 2} \subseteq DOMAIN rq_pc
    /\ rq[1] = rq[2]
    /\ rq[1].route = "/create-video"
    /\ rq_pc[1] = "done" /\ rq_outcome[1] = "ok"
    /\ rq_pc[2] = "saved"
    /\ [path |-> rq_image_path[2], by |-> 2] \in scratch

\* the lines wrap_text has so far, the one in progress included
LinesSoFar ==
    IF current_line # <<>> THEN Append(lines, Join(current_line)) ELSE lines

\* the words of a sequence of lines, read line by line
RECURSIVE WordsOf(_)
WordsOf(lns) ==
    IF lns = <<>> THEN <<>> ELSE Split(Head(lns)) \o WordsOf(Tail(lns))

\* C26 (SpecWrap): wrap_text is greedy.  For every two consecutive lines, the
\* earlier line followed by a space and the first word of the later line
\* measures more than max_width: no word is on a new line while it fitted on
\* the line before.
C26_WrapTextIsGreedy ==
    w_pc \in {"loop", "done"} =>
        \A k \in 1..(Len(LinesSoFar) - 1) :
            Measure(LinesSoFar[k] \o <<" ">> \o Split(LinesSoFar[k + 1])[1],
                    get_font(w_font)) > w_max_width

\* wrap_text has returned two lines, the first of them of two words
C26_Witness ==
    /\ w_pc = "done"
    /\ Len(lines) = 2
    /\ Len(Split(lines[1])) = 2

\* C27 (SpecWrap): wrap_text loses, duplicates and reorders no word.  The
\* words of the returned lines, read line by line, are the words of
\* text.split() in their order; no returned line is empty; and a text that is
\* empty or all whitespace gives no line at all.
C27_WrapTextKeepsTheWords ==
    w_pc = "done" =>
        /\ WordsOf(lines) = Split(w_text)
        /\ \A k \in 1..Len(lines) : lines[k] # <<>>
        /\ (\A c \in 1..Len(w_text) : w_text[c] \in Whitespace) => lines = <<>>

\* wrap_text has returned more than one line for a text with whitespace
\* before, between and after its words
C27_Witness ==
    /\ w_pc = "done"
    /\ Len(lines) >= 2
    /\ Len(w_text) > Len(Join(Split(w_text)))

\* the fade progress a frame was built with: none is computed, and nothing
\* of the image is shown, before black_duration
FadeOf(frame) ==
    IF frame.fade_progress = None THEN Rat(0, 1) ELSE frame.fade_progress

IsDefaultVideo ==
    RatEq(duration, Rat(DEFAULT_DURATION, 1)) /\ fps = DEFAULT_FPS

\* C28 (SpecVideo): create_video with its default duration of 5 s and 24 fps
\* builds 120 frames, for the indices 0..119; every one of them has a fade
\* progress strictly less than 1, and the last one, index 119, has 71/72.
C28_DefaultVideoNeverReachesFullOpacity ==
    (IsDefaultVideo /\ cv_pc \in {"loop", "encode", "returned"}) =>
        /\ total_frames = 120
        /\ Len(video_frames) <= 120
        /\ \A k \in 1..Len(video_frames) :
              /\ FrameIdx(k) = k - 1
              /\ RatLT(FadeOf(video_frames[k]), Rat(1, 1))
        /\ cv_pc \in {"encode", "returned"} =>
              /\ Len(video_frames) = 120
              /\ FrameIdx(120) = 119
              /\ RatEq(FadeOf(video_frames[120]), Rat(71, 72))

\* the default video has been written, its last frame with the image pasted
C28_Witness ==
    /\ IsDefaultVideo
    /\ cv_pc = "returned"
    /\ Len(clip.frames) = 120
    /\ HasImage(clip.frames[120])

\* C29 (SpecVideo): build_frame pastes the image if and only if the fade
\* progress is above 0, that is if and only if frame_idx > 2 * fps.  At
\* 24 fps the frame of index 48 (current_time 2.0 s exactly) has no image
\* and the frame of index 49 is the first that has one.
C29_ImagePastedIffPastBlackDuration ==
    /\ \A k \in 1..Len(video_frames) :
          /\ HasImage(video_frames[k]) <=> FrameIdx(k) > 2 * fps
          /\ HasImage(video_frames[k])
                <=> RatLT(Rat(0, 1), FadeOf(video_frames[k]))
    /\ (fps = 24 /\ Len(video_frames) >= 50) =>
          /\ FrameIdx(49) = 48 /\ ~HasImage(video_frames[49])
          /\ FrameIdx(50) = 49 /\ HasImage(video_frames[50])
          /\ \A k \in 1..49 : ~HasImage(video_frames[k])

\* at 24 fps the frames of index 48 and 49 have been built: the first with
\* a fade progress of 0 computed and nothing pasted, the second with the image
C29_Witness ==
    /\ fps = 24
    /\ Len(video_frames) >= 50
    /\ video_frames[49].fade_progress # None
    /\ RatEq(video_frames[49].fade_progress, Rat(0, 1))
    /\ ~HasImage(video_frames[49])
    /\ HasImage(video_frames[50])

\* what build_frame of app.py makes of the arguments the k-th frame of the
\* video was built from
AppFrame(k) == build_frame(FrameIdx(k), image, hook_text, fps, font_name)

AppLines == wrap_text(hook_text, get_font(font_name), VIDEO_WIDTH - WRAP_MARGIN)

\* C30 (SpecHookVideo): build_frame of image_hook_builder.py and build_frame
\* of app.py are equivalent.  For every frame create_image_hook_video has
\* built, app.py's build_frame gives, for the same frame index, image, hook
\* text, fps and font, the same wrapped lines, the same panel height, the
\* same image position, the same fade progress and the same decision to
\* paste the image; the values both compute before the decision agree too.
C30_BuildFramesAreEquivalent ==
    /\ \A k \in 1..Len(video_frames) :
          LET f == video_frames[k]
              g == AppFrame(k)
          IN  /\ PanelLayer(f).text = PanelLayer(g).text
              /\ PanelLayer(f).size = PanelLayer(g).size
              /\ HasImage(f) <=> HasImage(g)
              /\ HasImage(f) =>
                    /\ ImageLayer(f).at = ImageLayer(g).at
                    /\ ImageLayer(f).size = ImageLayer(g).size
                    /\ ImageLayer(f).alpha = ImageLayer(g).alpha
              /\ (f.fade_progress = None) <=> (g.fade_progress = None)
              /\ RatEq(FadeOf(f), FadeOf(g))
    /\ cv_pc \in {"loop", "encode", "returned"} =>
          LET lns == ihb_wrap_text(hook_text, get_font(font_name),
                                   ihb_VIDEO_WIDTH - ihb_WRAP_MARGIN)
          IN  /\ lns = AppLines
              /\ ihb_white_box_height(lns) = WhiteBoxHeight(AppLines)
              /\ <<0, ihb_img_y(ihb_white_box_height(lns), ihb_new_h(image.size))>>
                    = ImagePos(WhiteBoxHeight(AppLines), ScaledSize(image.size)[2])

\* create_image_hook_video has written a video of a hook text that wraps to
\* three lines, with frames before, at and after the start of the fade and
\* a last frame at full opacity
C30_Witness ==
    /\ cv_pc = "returned"
    /\ Len(AppLines) = 3
    /\ \E k \in 1..Len(video_frames) :
          video_frames[k].fade_progress # None /\ ~HasImage(video_frames[k])
    /\ ~HasImage(video_frames[1])
    /\ HasImage(video_frames[Len(video_frames)])
    /\ RatEq(FadeOf(video_frames[Len(video_frames)]), Rat(1, 1))

=============================================================================
